---------------------------- MODULE Spec2Model ----------------------------
(***************************************************************************)
(* A model of the audit engine of src/crm-blueprint.py                     *)
(* (class CRMBLUEPRINT_ANALYZER): configuration load, per-file extraction  *)
(* with the content-hash cache, call-graph resolution and the validation   *)
(* passes, as run by run_analysis.                                         *)
(*                                                                         *)
(* Text is modelled lexically.  A file's content is a sequence of lines; a *)
(* line is a record [indent, toks]: whether it starts with white space,    *)
(* and its tokens.  A token is [k, v]: k = "w" a word (\w+), k = "p"       *)
(* punctuation, k = "s" a quoted string literal whose text is v.  The      *)
(* program's regular expressions are translated to matches over tokens     *)
(* (\s* between two tokens is the token boundary, which may be a line      *)
(* break).  Where the program looks inside a string (lower-casing,         *)
(* substring tests, edit distance) the string's characters are given by    *)
(* Chars.                                                                  *)
(***************************************************************************)
EXTENDS Integers, Sequences, FiniteSets, TLC

VARIABLES
    disk,        \* the source corpus: rel_path -> content
    config,      \* the configuration sources on disk: [schema, settings]
    cache,       \* .analyzer_cache: cache file name -> [ok, hash, analysis]
    pc,          \* position of the process in run_analysis ("idle": no process)
    todo,        \* parse_all_files: the paths os.walk has still to yield
    files,       \* self.files: rel_path -> FileAnalysis
    functions,   \* self.functions: <<rel_path, name>> -> <<rel_path, index>>
    kb,          \* self.schema_columns, valid_outcomes, valid_stages, valid_statuses
    issues,      \* self.issues
    stats,       \* self.stats['issues_by_severity'], ['issues_by_category']
    extracted,   \* history: the paths this run extracted (did not take from the cache)
    prevIssues,  \* history: the issue list of the previous completed run
    sameInput,   \* history: no file or configuration changed since that run
    runs,        \* history: number of runs started
    edits,       \* history: number of edits made to the corpus
    stored,      \* history: rel_path -> the hash and record the path last wrote
                 \*          to the cache, until that cache file is removed or damaged
    unreadable,  \* the paths of the corpus whose file cannot be read
    scores,      \* history: the health scores reported so far
    order,       \* the order in which the caller runs the passes of run_analysis
    htmlScores   \* history: the health scores the HTML report computed so far

vars == <<disk, config, cache, pc, todo, files, functions, kb, issues, stats,
          extracted, prevIssues, sameInput, runs, edits, stored, unreadable,
          scores, order, htmlScores>>

-----------------------------------------------------------------------------
(* Strings *)

\* The characters of the strings the program inspects character by character.
Chars(s) ==
    \* function names of the corpus
    CASE s = "a" -> <<"a">>
      [] s = "b" -> <<"b">>
      [] s = "computeTotals" -> <<"c","o","m","p","u","t","e","T","o","t","a","l","s">>
      [] s = "onOpen" -> <<"o","n","O","p","e","n">>
      [] s = "onEdit" -> <<"o","n","E","d","i","t">>
      [] s = "doGet" -> <<"d","o","G","e","t">>
      [] s = "doPost" -> <<"d","o","P","o","s","t">>
      [] s = "showSidebar" -> <<"s","h","o","w","S","i","d","e","b","a","r">>
      [] s = "handleClick" -> <<"h","a","n","d","l","e","C","l","i","c","k">>
      [] s = "_private" -> <<"_","p","r","i","v","a","t","e">>
      [] s = "fuzzyMatchCompany" ->
            <<"f","u","z","z","y","M","a","t","c","h","C","o","m","p","a","n","y">>
      \* the allow-list of analyze_dependencies
      [] s = "onopen" -> <<"o","n","o","p","e","n">>
      [] s = "ondopen" -> <<"o","n","d","o","p","e","n">>
      [] s = "onget" -> <<"o","n","g","e","t">>
      [] s = "onpost" -> <<"o","n","p","o","s","t">>
      [] s = "onedit" -> <<"o","n","e","d","i","t">>
      [] s = "onformsubmit" -> <<"o","n","f","o","r","m","s","u","b","m","i","t">>
      [] s = "menu" -> <<"m","e","n","u">>
      [] s = "show" -> <<"s","h","o","w">>
      [] s = "display" -> <<"d","i","s","p","l","a","y">>
      [] s = "render" -> <<"r","e","n","d","e","r">>
      [] s = "init" -> <<"i","n","i","t">>
      [] s = "setup" -> <<"s","e","t","u","p">>
      [] s = "install" -> <<"i","n","s","t","a","l","l">>
      [] s = "click" -> <<"c","l","i","c","k">>
      [] s = "change" -> <<"c","h","a","n","g","e">>
      [] s = "submit" -> <<"s","u","b","m","i","t">>
      [] s = "callback" -> <<"c","a","l","l","b","a","c","k">>
      [] s = "handler" -> <<"h","a","n","d","l","e","r">>
      [] s = "evaluate" -> <<"e","v","a","l","u","a","t","e">>
      [] s = "gethtml" -> <<"g","e","t","h","t","m","l">>
      [] s = "gettemplate" -> <<"g","e","t","t","e","m","p","l","a","t","e">>
      [] s = "constructor" -> <<"c","o","n","s","t","r","u","c","t","o","r">>
      \* relative paths
      [] s = "A.js" -> <<"A",".","j","s">>
      [] s = "B.js" -> <<"B",".","j","s">>
      [] s = "C.js" -> <<"C",".","j","s">>
      [] s = "D.js" -> <<"D",".","j","s">>
      [] s = "E.js" -> <<"E",".","j","s">>
      [] s = "F.js" -> <<"F",".","j","s">>
      [] s = "a_b.js" -> <<"a","_","b",".","j","s">>
      [] s = "a/b.js" -> <<"a","/","b",".","j","s">>
      [] s = "OUTREACH.gs" -> <<"O","U","T","R","E","A","C","H",".","g","s">>
      [] s = "ui/outreachForm.html" ->
            <<"u","i","/","o","u","t","r","e","a","c","h","F","o","r","m",".","h","t","m","l">>
      [] s = "page.html" -> <<"p","a","g","e",".","h","t","m","l">>
      [] s = "FuzzyMatchingUtils.js" ->
            <<"F","u","z","z","y","M","a","t","c","h","i","n","g","U","t","i","l","s",".","j","s">>
      [] s = "outreach" -> <<"o","u","t","r","e","a","c","h">>
      [] s = "Outreach" -> <<"O","u","t","r","e","a","c","h">>
      [] s = "Config.js" -> <<"C","o","n","f","i","g",".","j","s">>
      \* words of the column-reference templates
      [] s = "getColumn" -> <<"g","e","t","C","o","l","u","m","n">>
      [] s = "headers" -> <<"h","e","a","d","e","r","s">>
      [] s = "header" -> <<"h","e","a","d","e","r">>
      [] s = "getRange" -> <<"g","e","t","R","a","n","g","e">>
      [] s = "SpreadsheetApp" -> <<"S","p","r","e","a","d","s","h","e","e","t","A","p","p">>
      [] s = "getSheetByName" -> <<"g","e","t","S","h","e","e","t","B","y","N","a","m","e">>
      [] s = "sheet" -> <<"s","h","e","e","t">>
      [] s = "HEADERS" -> <<"H","E","A","D","E","R","S">>
      [] s = "dataSheet" -> <<"d","a","t","a","S","h","e","e","t">>
      \* the stop-list of validate_schema_references
      [] s = "val" -> <<"v","a","l">>
      [] s = "value" -> <<"v","a","l","u","e">>
      [] s = "item" -> <<"i","t","e","m">>
      [] s = "key" -> <<"k","e","y">>
      [] s = "name" -> <<"n","a","m","e">>
      [] s = "id" -> <<"i","d">>
      [] s = "data" -> <<"d","a","t","a">>
      [] s = "result" -> <<"r","e","s","u","l","t">>
      [] s = "get" -> <<"g","e","t">>
      [] s = "post" -> <<"p","o","s","t">>
      [] s = "put" -> <<"p","u","t">>
      [] s = "delete" -> <<"d","e","l","e","t","e">>
      [] s = "true" -> <<"t","r","u","e">>
      [] s = "false" -> <<"f","a","l","s","e">>
      [] s = "null" -> <<"n","u","l","l">>
      [] s = "undefined" -> <<"u","n","d","e","f","i","n","e","d">>
      [] s = "red" -> <<"r","e","d">>
      [] s = "blue" -> <<"b","l","u","e">>
      [] s = "green" -> <<"g","r","e","e","n">>
      [] s = "yellow" -> <<"y","e","l","l","o","w">>
      [] s = "orange" -> <<"o","r","a","n","g","e">>
      [] s = "purple" -> <<"p","u","r","p","l","e">>
      [] s = "black" -> <<"b","l","a","c","k">>
      [] s = "white" -> <<"w","h","i","t","e">>
      [] s = "application/json" ->
            <<"a","p","p","l","i","c","a","t","i","o","n","/","j","s","o","n">>
      [] s = "text/html" -> <<"t","e","x","t","/","h","t","m","l">>
      [] s = "text/plain" -> <<"t","e","x","t","/","p","l","a","i","n">>
      [] s = "application/xml" -> <<"a","p","p","l","i","c","a","t","i","o","n","/","x","m","l">>
      [] s = "center" -> <<"c","e","n","t","e","r">>
      [] s = "left" -> <<"l","e","f","t">>
      [] s = "right" -> <<"r","i","g","h","t">>
      [] s = "top" -> <<"t","o","p">>
      [] s = "bottom" -> <<"b","o","t","t","o","m">>
      [] s = "middle" -> <<"m","i","d","d","l","e">>
      [] s = "default" -> <<"d","e","f","a","u","l","t">>
      [] s = "return" -> <<"r","e","t","u","r","n">>
      [] s = "continue" -> <<"c","o","n","t","i","n","u","e">>
      [] s = "break" -> <<"b","r","e","a","k">>
      [] s = "switch" -> <<"s","w","i","t","c","h">>
      [] s = "case" -> <<"c","a","s","e">>
      \* schema columns and string literals
      [] s = "CompanyName" -> <<"C","o","m","p","a","n","y","N","a","m","e">>
      [] s = "CompanyNam" -> <<"C","o","m","p","a","n","y","N","a","m">>
      [] s = "CompanyNameX" -> <<"C","o","m","p","a","n","y","N","a","m","e","X">>
      [] s = "CompanyNameY" -> <<"C","o","m","p","a","n","y","N","a","m","e","Y">>
      [] s = "CompanyNameZ" -> <<"C","o","m","p","a","n","y","N","a","m","e","Z">>
      [] s = "companyname" -> <<"c","o","m","p","a","n","y","n","a","m","e">>
      [] s = "Company" -> <<"C","o","m","p","a","n","y">>
      [] s = "Compony" -> <<"C","o","m","p","o","n","y">>
      [] s = "Zebra" -> <<"Z","e","b","r","a">>
      [] s = "Value" -> <<"V","a","l","u","e">>
      [] s = "ID" -> <<"I","D">>
      [] s = "PrimaryContactNumber" ->
            <<"P","r","i","m","a","r","y","C","o","n","t","a","c","t","N","u","m","b","e","r">>
      [] s = "PrimaryContactNum" ->
            <<"P","r","i","m","a","r","y","C","o","n","t","a","c","t","N","u","m">>
      [] s = "PrimaryContactNumbe" ->
            <<"P","r","i","m","a","r","y","C","o","n","t","a","c","t","N","u","m","b","e">>
      [] s = "PrimaryContactNumbers" ->
            <<"P","r","i","m","a","r","y","C","o","n","t","a","c","t","N","u","m","b","e","r","s">>
      [] s = "Companyname" -> <<"C","o","m","p","a","n","y","n","a","m","e">>
      [] s = "Default" -> <<"D","e","f","a","u","l","t">>
      [] s = "Won" -> <<"W","o","n">>
      [] s = "Wonn" -> <<"W","o","n","n">>
      [] s = "Lead" -> <<"L","e","a","d">>
      [] s = "Not Contacted" -> <<"N","o","t"," ","C","o","n","t","a","c","t","e","d">>
      \* words and signs of the security and performance passes
      [] s = "for" -> <<"f","o","r">>
      [] s = "while" -> <<"w","h","i","l","e">>
      [] s = "getDataRange" -> <<"g","e","t","D","a","t","a","R","a","n","g","e">>
      [] s = "appendRow" -> <<"a","p","p","e","n","d","R","o","w">>
      [] s = "eval" -> <<"e","v","a","l">>
      [] s = "innerHTML" -> <<"i","n","n","e","r","H","T","M","L">>
      [] s = "sanitizeHtml" -> <<"s","a","n","i","t","i","z","e","H","t","m","l">>
      [] s = "document" -> <<"d","o","c","u","m","e","n","t">>
      [] s = "write" -> <<"w","r","i","t","e">>
      [] s = "function" -> <<"f","u","n","c","t","i","o","n">>
      [] s = "format" -> <<"f","o","r","m","a","t">>
      [] s = "total" -> <<"t","o","t","a","l">>
      [] s = "var" -> <<"v","a","r">>
      [] s = "if" -> <<"i","f">>
      [] s = "el" -> <<"e","l">>
      [] s = "sh" -> <<"s","h">>
      [] s = "ss" -> <<"s","s">>
      [] s = "++" -> <<"+","+">>
      [] s = "''" -> <<"'","'">>
      \* texts of the security and data-flow passes
      [] s = "http://" -> <<"h","t","t","p",":","/","/">>
      [] s = "localhost" -> <<"l","o","c","a","l","h","o","s","t">>
      [] s = "http://example.com" ->
            <<"h","t","t","p",":","/","/","e","x","a","m","p","l","e",".","c","o","m">>
      [] s = "http://localhost" ->
            <<"h","t","t","p",":","/","/","l","o","c","a","l","h","o","s","t">>
      [] s = "before" -> <<"b","e","f","o","r","e">>
      [] s = "after" -> <<"a","f","t","e","r">>
      [] s = "Prospects" -> <<"P","r","o","s","p","e","c","t","s">>
      [] s = "Archive" -> <<"A","r","c","h","i","v","e">>
      [] s = "Old Sheet" -> <<"O","l","d"," ","S","h","e","e","t">>
      \* a string the program never looks into is one opaque symbol
      [] OTHER -> <<s>>

\* str.lower() on one character
LowerChar(c) ==
    CASE c = "A" -> "a" [] c = "B" -> "b" [] c = "C" -> "c" [] c = "D" -> "d"
      [] c = "E" -> "e" [] c = "F" -> "f" [] c = "G" -> "g" [] c = "H" -> "h"
      [] c = "I" -> "i" [] c = "J" -> "j" [] c = "K" -> "k" [] c = "L" -> "l"
      [] c = "M" -> "m" [] c = "N" -> "n" [] c = "O" -> "o" [] c = "P" -> "p"
      [] c = "Q" -> "q" [] c = "R" -> "r" [] c = "S" -> "s" [] c = "T" -> "t"
      [] c = "U" -> "u" [] c = "V" -> "v" [] c = "W" -> "w" [] c = "X" -> "x"
      [] c = "Y" -> "y" [] c = "Z" -> "z" [] OTHER -> c

\* str.lower()
Lower(cs) == [i \in 1..Len(cs) |-> LowerChar(cs[i])]

\* needle in hay (Python's substring test on str)
Contains(hay, needle) ==
    \E i \in 0..(Len(hay) - Len(needle)) :
        \A j \in 1..Len(needle) : hay[i + j] = needle[j]

\* hay.startswith(prefix)
StartsWith(hay, prefix) ==
    /\ Len(prefix) <= Len(hay)
    /\ \A j \in 1..Len(prefix) : hay[j] = prefix[j]

\* str.replace(old, new) for single characters
ReplaceChar(cs, old, new) == [i \in 1..Len(cs) |-> IF cs[i] = old THEN new ELSE cs[i]]

\* the index of the last occurrence of character c in cs, 0 when there is none
LastIndexOf(cs, c) ==
    LET hits == {i \in 1..Len(cs) : cs[i] = c}
    IN  IF hits = {} THEN 0 ELSE CHOOSE i \in hits : \A j \in hits : j <= i

-----------------------------------------------------------------------------
(* Tokens and lines *)

W(s) == [k |-> "w", v |-> s]
P(s) == [k |-> "p", v |-> s]
S(s) == [k |-> "s", v |-> s]

\* a line that starts in column 0, and an indented line
L0(toks) == [indent |-> FALSE, toks |-> toks]
L1(toks) == [indent |-> TRUE, toks |-> toks]

IsWord(t) == t.k = "w"

\* content.split('\n') has one entry per line
LineCount(content) == Len(content)

RECURSIVE FlatFrom(_, _)
\* the tokens of lines i.. of content, each with its line number and whether it
\* is the first token of its line
FlatFrom(content, i) ==
    IF i > Len(content) THEN <<>>
    ELSE [j \in 1..Len(content[i].toks) |->
              [t |-> content[i].toks[j], ln |-> i, first |-> (j = 1)]]
         \o FlatFrom(content, i + 1)

Flat(content) == FlatFrom(content, 1)

\* the token at position i of a token stream, a token that equals none past its ends
At(f, i) == IF i >= 1 /\ i <= Len(f) THEN f[i].t ELSE [k |-> "none", v |-> ""]

\* [^)]*\) from position i: the position of the first ")" at or after i, 0 if none
CloseParen(f, i) ==
    LET hits == {j \in i..Len(f) : f[j].t = P(")")}
    IN  IF hits = {} THEN 0 ELSE CHOOSE j \in hits : \A h \in hits : j <= h


-----------------------------------------------------------------------------
(* Python dicts keep insertion order: a dict is a sequence of [key, val],   *)
(* and assigning to a key already present keeps its place.                  *)

DictKeys(d) == {d[i].key : i \in 1..Len(d)}

DictHas(d, k) == \E i \in 1..Len(d) : d[i].key = k

DictGet(d, k) == d[CHOOSE i \in 1..Len(d) : d[i].key = k].val

DictPut(d, k, v) ==
    IF DictHas(d, k)
    THEN [i \in 1..Len(d) |-> IF d[i].key = k THEN [key |-> k, val |-> v] ELSE d[i]]
    ELSE Append(d, [key |-> k, val |-> v])

-----------------------------------------------------------------------------
(* _parse_javascript_file: the six function shapes                          *)

JS_KEYWORDS ==
    {"if", "for", "while", "do", "switch", "case", "break", "continue",
     "return", "try", "catch", "finally", "throw", "new", "class",
     "extends", "import", "export", "default", "const", "let", "var",
     "function", "async", "await", "typeof", "instanceof", "in", "of",
     "else", "this", "super", "yield", "static"}

\* (?:var|let|const)
DeclWords == {W("var"), W("let"), W("const")}

\* the order of the pattern list of _parse_javascript_file
Shapes == <<"function", "var_function", "arrow", "method_shorthand",
            "object_method", "class_method">>

NoMatch == [end |-> 0, name |-> "", start |-> 0, params |-> <<>>]

\* params_str.split(',') stripped, empties dropped: the words between the
\* parentheses at positions open and close
Params(f, open, close) ==
    LET inner == [k \in 1..(close - open - 1) |-> f[open + k].t]
        words == SelectSeq(inner, IsWord)
    IN  [k \in 1..Len(words) |-> words[k].v]

\* a token with the character "=" in it
HasEq(t) == t.k = "p" /\ t.v \in {"=", "==", "===", "=>", "<=", ">=", "!=", "!=="}

\* r'function\s+(\w+)\s*\(([^)]*)\)\s*\{'
MatchFunction(f, i) ==
    LET c == CloseParen(f, i + 3)
    IN  IF /\ At(f, i) = W("function") /\ IsWord(At(f, i + 1))
           /\ At(f, i + 2) = P("(") /\ c # 0 /\ At(f, c + 1) = P("{")
        THEN [end |-> c + 1, name |-> f[i + 1].t.v, start |-> f[i].ln,
              params |-> Params(f, i + 2, c)]
        ELSE NoMatch

\* r'(?:var|let|const)\s+(\w+)\s*=\s*function\s*\(([^)]*)\)'
MatchVarFunction(f, i) ==
    LET c == CloseParen(f, i + 5)
    IN  IF /\ At(f, i) \in DeclWords /\ IsWord(At(f, i + 1))
           /\ At(f, i + 2) = P("=") /\ At(f, i + 3) = W("function")
           /\ At(f, i + 4) = P("(") /\ c # 0
        THEN [end |-> c, name |-> f[i + 1].t.v, start |-> f[i].ln,
              params |-> Params(f, i + 4, c)]
        ELSE NoMatch

\* r'(?:const|let|var)\s+(\w+)\s*=\s*(?:\([^)]*\)|[^=]+)\s*=>'  (one group: no
\* parameter list is captured).  After the "=": a parenthesised list, or one or
\* more characters none of them "=", and then "=>".
MatchArrow(f, i) ==
    LET c    == IF At(f, i + 3) = P("(") THEN CloseParen(f, i + 4) ELSE 0
        eqs  == {j \in (i + 3)..Len(f) : HasEq(f[j].t)}
        q    == IF eqs = {} THEN 0 ELSE CHOOSE j \in eqs : \A h \in eqs : j <= h
        endA == IF c # 0 /\ At(f, c + 1) = P("=>") THEN c + 1 ELSE 0
        endB == IF q > i + 3 /\ At(f, q) = P("=>") THEN q ELSE 0
    IN  IF /\ At(f, i) \in DeclWords /\ IsWord(At(f, i + 1))
           /\ At(f, i + 2) = P("=") /\ (endA # 0 \/ endB # 0)
        THEN [end |-> IF endA # 0 THEN endA ELSE endB, name |-> f[i + 1].t.v,
              start |-> f[i].ln, params |-> <<>>]
        ELSE NoMatch

\* r'(?<=[,{])\s*(\w+)\s*\(([^)]*)\)\s*\{'  The match starts right behind the
\* "," or "{", so it starts on that token's line.
MatchMethodShorthand(f, i) ==
    LET c == CloseParen(f, i + 2)
    IN  IF /\ At(f, i - 1) \in {P(","), P("{")} /\ IsWord(At(f, i))
           /\ At(f, i + 1) = P("(") /\ c # 0 /\ At(f, c + 1) = P("{")
        THEN [end |-> c + 1, name |-> f[i].t.v, start |-> f[i - 1].ln,
              params |-> Params(f, i + 1, c)]
        ELSE NoMatch

\* r'(\w+)\s*:\s*function\s*\(([^)]*)\)'
MatchObjectMethod(f, i) ==
    LET c == CloseParen(f, i + 4)
    IN  IF /\ IsWord(At(f, i)) /\ At(f, i + 1) = P(":")
           /\ At(f, i + 2) = W("function") /\ At(f, i + 3) = P("(") /\ c # 0
        THEN [end |-> c, name |-> f[i].t.v, start |-> f[i].ln,
              params |-> Params(f, i + 3, c)]
        ELSE NoMatch

\* a line of white space only
Blank(line) == line.toks = <<>>

\* ^\s+ before the first token of line ln: the first line of the run of blank
\* lines right above ln (ln itself when there is none)
RunStart(content, ln) ==
    CHOOSE s \in 1..ln :
        /\ \A k \in s..(ln - 1) : Blank(content[k])
        /\ s = 1 \/ ~Blank(content[s - 1])

\* r'^\s+(?:async\s+)?(\w+)\s*\(([^)]*)\)\s*\{' with re.MULTILINE: the name is
\* the first token of its line, and white space (the line's indentation, or
\* blank lines above it) lies between a line start and the name.
MatchClassMethod(content, f, i) ==
    LET n  == IF At(f, i) = W("async") /\ IsWord(At(f, i + 1)) THEN i + 1 ELSE i
        c  == CloseParen(f, n + 2)
        ln == f[i].ln
        s  == RunStart(content, ln)
    IN  IF /\ i <= Len(f) /\ f[i].first /\ (content[ln].indent \/ s < ln)
           /\ IsWord(At(f, n)) /\ At(f, n + 1) = P("(") /\ c # 0
           /\ At(f, c + 1) = P("{")
        THEN [end |-> c + 1, name |-> f[n].t.v, start |-> s,
              params |-> Params(f, n + 1, c)]
        ELSE NoMatch

MatchShape(content, f, i, shape) ==
    CASE shape = "function"         -> MatchFunction(f, i)
      [] shape = "var_function"     -> MatchVarFunction(f, i)
      [] shape = "arrow"            -> MatchArrow(f, i)
      [] shape = "method_shorthand" -> MatchMethodShorthand(f, i)
      [] shape = "object_method"    -> MatchObjectMethod(f, i)
      [] shape = "class_method"     -> MatchClassMethod(content, f, i)

RECURSIVE FindIter(_, _, _, _)
\* re.finditer: the matches of one shape from position i on, leftmost first,
\* none overlapping the one before
FindIter(content, f, i, shape) ==
    LET hits == {j \in i..Len(f) : MatchShape(content, f, j, shape).end # 0}
    IN  IF hits = {} THEN <<>>
        ELSE LET m == MatchShape(content, f, CHOOSE j \in hits : \A h \in hits : j <= h,
                                 shape)
             IN  <<m>> \o FindIter(content, f, m.end + 1, shape)

-----------------------------------------------------------------------------
(* _extract_function                                                        *)

\* The brace counting loops from line line_num on.  line_end starts as
\* line_num and is assigned only in the "}" branch, where the count returns to
\* zero; the outer loop also stops, without an assignment, at the end of a
\* line that leaves the count at zero after a "{" was seen.
LineEnd(content, line_num) ==
    LET f  == Flat(content)
        br == {p \in 1..Len(f) : f[p].ln >= line_num /\ f[p].t \in {P("{"), P("}")}}
        opened(p) == Cardinality({q \in br : q <= p /\ f[q].t = P("{")})
        closed(p) == Cardinality({q \in br : q <= p /\ f[q].t = P("}")})
        \* func_started and brace_count == 0, after the brace at p
        balanced(p) == opened(p) > 0 /\ opened(p) = closed(p)
        \* the lines of a "}" that returns the count to zero
        closing == {f[p].ln : p \in {q \in br : f[q].t = P("}") /\ balanced(q)}}
        \* the lines whose last brace so far leaves the count at zero
        stops == {l \in line_num..Len(content) :
                     \E p \in br : /\ f[p].ln <= l
                                   /\ \A q \in br : f[q].ln <= l => q <= p
                                   /\ balanced(p)}
    IN  IF closing = {} THEN line_num
        ELSE LET l == CHOOSE x \in closing : \A y \in closing : x <= y
             IN  IF \E x \in stops : x < l THEN line_num ELSE l

\* func_body = '\n'.join(lines[line_num-1:line_end]), as a token stream
FuncBody(content, line_num, line_end) ==
    Flat(SubSeq(content, line_num, line_end))

\* r'\btry\b|\bcatch\b|\bthrow\b'
HasErrorHandling(body) ==
    \E i \in 1..Len(body) : body[i].t \in {W("try"), W("catch"), W("throw")}

\* r'console\.(log|warn|error)|Logger\.log'
HasLogging(body) ==
    \E i \in 1..Len(body) :
        \/ /\ body[i].t = W("console") /\ At(body, i + 1) = P(".")
           /\ At(body, i + 2) \in {W("log"), W("warn"), W("error")}
        \/ /\ body[i].t = W("Logger") /\ At(body, i + 1) = P(".")
           /\ At(body, i + 2) = W("log")

ComplexityWords == {W("if"), W("else"), W("for"), W("while"), W("switch"), W("case")}

\* len(re.findall(r'\bif\b|\belse\b|\bfor\b|\bwhile\b|\bswitch\b|\bcase\b|\b\&\&\|\|\b')):
\* the last alternative is the text "&&||" between two word characters
Complexity(body) ==
    Cardinality({i \in 1..Len(body) :
        \/ body[i].t \in ComplexityWords
        \/ /\ body[i].t = P("&&||") /\ IsWord(At(body, i - 1))
           /\ IsWord(At(body, i + 1))})

NotCalls == {"if", "for", "while", "switch", "catch", "return"}

\* the words followed by "(" in the body: r'(\w+)\s*\('
Calls(body) ==
    {body[i].t.v : i \in {j \in 1..Len(body) :
        IsWord(body[j].t) /\ At(body, j + 1) = P("(")}} \ NotCalls

\* the FunctionInfo built from one match
extract_function(m, content, rel_path) ==
    LET line_num == m.start
        line_end == LineEnd(content, line_num)
        body     == FuncBody(content, line_num, line_end)
    IN  [name |-> m.name, file |-> rel_path,
         line_start |-> line_num, line_end |-> line_end,
         params |-> m.params, calls |-> Calls(body), called_by |-> {},
         complexity_score |-> Complexity(body),
         has_error_handling |-> HasErrorHandling(body),
         has_logging |-> HasLogging(body)]

\* the matches of one shape that are kept: a name in JS_KEYWORDS is skipped
ShapeFunctions(content, rel_path, shape) ==
    LET ms   == FindIter(content, Flat(content), 1, shape)
        kept == SelectSeq(ms, LAMBDA m : m.name \notin JS_KEYWORDS)
    IN  [k \in 1..Len(kept) |-> extract_function(kept[k], content, rel_path)]

RECURSIVE AllShapes(_, _, _)
\* for pattern, func_type in patterns: for match in re.finditer(...)
AllShapes(content, rel_path, n) ==
    IF n > Len(Shapes) THEN <<>>
    ELSE ShapeFunctions(content, rel_path, Shapes[n])
         \o AllShapes(content, rel_path, n + 1)

\* file_analysis.string_literals: (line, text) of every quoted literal
StringLiterals(content) ==
    LET f    == Flat(content)
        lits == SelectSeq(f, LAMBDA x : x.t.k = "s")
    IN  [k \in 1..Len(lits) |-> <<lits[k].ln, lits[k].t.v>>]

\* the functions _parse_javascript_file appends to file_analysis.functions
JsFunctions(content, rel_path) == AllShapes(content, rel_path, 1)

-----------------------------------------------------------------------------
(* _parse_html_file                                                         *)

RECURSIVE ScriptBlocks(_, _)
\* r'<script[^>]*>(.*?)</script>': the token ranges <<from, to>> between a
\* "<script>" and the first "</script>" after it, from position i on
ScriptBlocks(f, i) ==
    LET opens == {j \in i..Len(f) : f[j].t = P("<script>")}
        o     == IF opens = {} THEN 0 ELSE CHOOSE j \in opens : \A h \in opens : j <= h
        closes == {j \in (o + 1)..Len(f) : f[j].t = P("</script>")}
        c     == IF closes = {} THEN 0 ELSE CHOOSE j \in closes : \A h \in closes : j <= h
    IN  IF o = 0 \/ c = 0 THEN <<>>
        ELSE <<[from |-> o + 1, to |-> c - 1]>> \o ScriptBlocks(f, c + 1)

\* r'function\s+(\w+)\s*\(([^)]*)\)' at position i of a script block
MatchHtmlFunction(f, i) ==
    LET c == CloseParen(f, i + 3)
    IN  IF /\ At(f, i) = W("function") /\ IsWord(At(f, i + 1))
           /\ At(f, i + 2) = P("(") /\ c # 0
        THEN [end |-> c, name |-> f[i + 1].t.v, start |-> 0,
              params |-> Params(f, i + 2, c)]
        ELSE NoMatch

RECURSIVE HtmlFindIter(_, _)
HtmlFindIter(f, i) ==
    LET hits == {j \in i..Len(f) : MatchHtmlFunction(f, j).end # 0}
    IN  IF hits = {} THEN <<>>
        ELSE LET m == MatchHtmlFunction(f, CHOOSE j \in hits : \A h \in hits : j <= h)
             IN  <<m>> \o HtmlFindIter(f, m.end + 1)

\* the FunctionInfo of a function found in a script block: no span, no body
HtmlFunctionInfo(m, rel_path) ==
    [name |-> m.name, file |-> rel_path, line_start |-> 0, line_end |-> 0,
     params |-> m.params, calls |-> {}, called_by |-> {},
     complexity_score |-> 0, has_error_handling |-> FALSE,
     has_logging |-> FALSE]

RECURSIVE HtmlBlockFunctions(_, _, _, _)
HtmlBlockFunctions(f, blocks, n, rel_path) ==
    IF n > Len(blocks) THEN <<>>
    ELSE LET ms == HtmlFindIter(SubSeq(f, blocks[n].from, blocks[n].to), 1)
         IN  [k \in 1..Len(ms) |-> HtmlFunctionInfo(ms[k], rel_path)]
             \o HtmlBlockFunctions(f, blocks, n + 1, rel_path)

\* the functions _parse_html_file appends to file_analysis.functions
HtmlFunctions(content, rel_path) ==
    LET f == Flat(content)
    IN  HtmlBlockFunctions(f, ScriptBlocks(f, 1), 1, rel_path)


-----------------------------------------------------------------------------
(* Paths, the cache store, issues                                           *)

\* filepath.suffix.lower(): from the last "." on, lower-cased
Suffix(rel_path) ==
    LET cs == Chars(rel_path)
        d  == LastIndexOf(cs, ".")
    IN  IF d = 0 THEN <<>> ELSE Lower(SubSeq(cs, d, Len(cs)))

IsCode(ext) == ext \in {<<".", "j", "s">>, <<".", "g", "s">>}

IsMarkup(ext) == ext = <<".", "h", "t", "m", "l">>

\* parse_all_files: ext in ['js', 'gs', 'html']
Selected(rel_path) == IsCode(Suffix(rel_path)) \/ IsMarkup(Suffix(rel_path))

\* os.walk is top-down: a file in a subdirectory is yielded after every file
\* of the root directory
InSubdir(rel_path) == Contains(Chars(rel_path), <<"/">>)

\* cache_file = cache_dir / f"{rel_path.replace('/', '_')}.cache"
CacheFile(rel_path) ==
    ReplaceChar(Chars(rel_path), "/", "_") \o <<".", "c", "a", "c", "h", "e">>

FnPut(f, k, v) == [x \in DOMAIN f \cup {k} |-> IF x = k THEN v ELSE f[x]]

Severities == {"CRITICAL", "HIGH", "MEDIUM", "LOW", "INFO"}

Categories == {"Schema", "Settings", "Code Quality", "Security", "Performance",
               "Error Handling", "Architecture", "Maintainability"}

\* an Issue: file, line, severity, category and the message, whose kind is msg and
\* whose interpolated values are a, b (strings) and n (a number)
Issue(file, line, severity, category, msg, a, b, n) ==
    [file |-> file, line |-> line, severity |-> severity, category |-> category,
     msg |-> msg, a |-> a, b |-> b, n |-> n]

NoStats == [severity |-> [x \in Severities |-> 0], category |-> [x \in Categories |-> 0]]

\* a variant of _add_issue that keeps the first issue of a file and category
add_issue_once(st, issue) ==
    IF \E k \in 1..Len(st.issues) :
          st.issues[k].file = issue.file /\ st.issues[k].category = issue.category
    THEN st
    ELSE [issues |-> Append(st.issues, issue),
          stats  |-> [severity |-> [st.stats.severity EXCEPT ![issue.severity] = @ + 1],
                      category |-> [st.stats.category EXCEPT ![issue.category] = @ + 1]]]

\* a variant of _add_issue that counts the severity only
add_issue_uncategorised(st, issue) ==
    [issues |-> Append(st.issues, issue),
     stats  |-> [severity |-> [st.stats.severity EXCEPT ![issue.severity] = @ + 1],
                 category |-> st.stats.category]]

\* _add_issue on the pair [issues, stats]
add_issue(st, issue) ==
    [issues |-> Append(st.issues, issue),
     stats  |-> [severity |-> [st.stats.severity EXCEPT ![issue.severity] = @ + 1],
                 category |-> [st.stats.category EXCEPT ![issue.category] = @ + 1]]]

RECURSIVE AddAll(_, _)
\* _add_issue for each issue of a sequence, in order
AddAll(st, new) ==
    IF new = <<>> THEN st ELSE AddAll(add_issue(st, Head(new)), Tail(new))

-----------------------------------------------------------------------------
(* The source texts the corpus is drawn from                                *)

\* the largest number of branching keywords in a generated function body
MaxIfs == 12

\* "  if (x) y++;"
IfLine == L1(<<W("if"), P("("), W("x"), P(")"), W("y"), P("++"), P(";")>>)

\* a body of n such lines
Ifs(n) == [k \in 1..n |-> IfLine]

\* a function declared under one of the six shapes, with the given body lines
Decl(shape, name, body) ==
    CASE shape = "function" ->
            <<L0(<<W("function"), W(name), P("("), P(")"), P("{")>>)>>
            \o body \o <<L0(<<P("}")>>)>>
      [] shape = "var_function" ->
            <<L0(<<W("var"), W(name), P("="), W("function"), P("("), P(")"), P("{")>>)>>
            \o body \o <<L0(<<P("}"), P(";")>>)>>
      [] shape = "arrow" ->
            <<L0(<<W("const"), W(name), P("="), P("("), P(")"), P("=>"), P("{")>>)>>
            \o body \o <<L0(<<P("}"), P(";")>>)>>
      [] shape = "method_shorthand" ->
            <<L0(<<W("var"), W("obj"), P("="), P("{"),
                   W(name), P("("), P(")"), P("{")>>)>>
            \o body \o <<L0(<<P("}"), P("}"), P(";")>>)>>
      [] shape = "object_method" ->
            <<L0(<<W("var"), W("obj"), P("="), P("{")>>),
              L1(<<W(name), P(":"), W("function"), P("("), P(")"), P("{")>>)>>
            \o body \o <<L1(<<P("}")>>), L0(<<P("}"), P(";")>>)>>
      [] shape = "class_method" ->
            <<L0(<<W("class"), W("K"), P("{")>>),
              L1(<<W("x"), P("="), W("1"), P(";")>>),
              L1(<<W(name), P("("), P(")"), P("{")>>)>>
            \o body \o <<L1(<<P("}")>>), L0(<<P("}")>>)>>

ShapeSet == {Shapes[n] : n \in 1..Len(Shapes)}

\* function a(){ b(); }
FileA == <<L0(<<W("function"), W("a"), P("("), P(")"), P("{"),
                W("b"), P("("), P(")"), P(";"), P("}")>>)>>

\* function b(){}
FileB == <<L0(<<W("function"), W("b"), P("("), P(")"), P("{"), P("}")>>)>>

\* function a(){ name(); }: a file with one call site of name
CallerOf(name) ==
    <<L0(<<W("function"), W("a"), P("("), P(")"), P("{"),
           W(name), P("("), P(")"), P(";"), P("}")>>)>>

GraphNames == {"computeTotals", "onOpen", "doGet", "showSidebar", "_private"}

\* complexity scores around the threshold of analyze_dependencies
IfCounts == {2, 10, MaxIfs}

GraphSubjects ==
    {FileA} \cup {Decl(shape, name, Ifs(n)) :
                     shape \in ShapeSet, name \in GraphNames, n \in IfCounts}

\* function b(){} twice, on two lines
TwiceB == FileB \o FileB

\* a page whose script block declares function b(){}
PageB == <<L0(<<P("<script>")>>)>> \o FileB \o <<L0(<<P("</script>")>>)>>

GraphOthers == {FileB} \cup {CallerOf(name) : name \in GraphNames}

\* the largest number of lines between a literal and a column-reference line
MaxGap == 3

\* one line per column-reference template, built around val
TemplateLine(tmpl, val) ==
    CASE tmpl = 1 -> L0(<<W("x"), P("."), W("getColumn"), P("("), S(val), P(")"), P(";")>>)
      [] tmpl = 2 -> L0(<<W("x"), P("="), W("headers"), P("["), S(val), P("]"), P(";")>>)
      [] tmpl = 3 -> L0(<<W("if"), P("("), W("header"), P("=="), S(val), P(")"),
                         W("x"), P(";")>>)
      [] tmpl = 4 -> L0(<<W("rng"), P("."), W("getRange"), P("("), W("1"), P(","),
                         S(val), P(")"), P(";")>>)
      [] tmpl = 5 -> L0(<<W("SpreadsheetApp"), P("."), W("getSheetByName"), P("("),
                         W(val), P(")"), P(";")>>)
      [] tmpl = 6 -> L0(<<W("sheet"), P("."), W("getRange"), P("("), W(val), P(")"),
                         P(";")>>)

Templates == 1..6

\* var v = "val";
LiteralLine(val) == L0(<<W("var"), W("v"), P("="), S(val), P(";")>>)

\* x = 1;
FillerLine == L0(<<W("x"), P("="), W("1"), P(";")>>)

\* a literal and a column-reference line with gap lines between them, in either
\* order
SchemaFile(tmpl, val, gap, literal_first) ==
    IF literal_first
    THEN <<LiteralLine(val)>> \o [k \in 1..gap |-> FillerLine] \o <<TemplateLine(tmpl, val)>>
    ELSE <<TemplateLine(tmpl, val)>> \o [k \in 1..gap |-> FillerLine] \o <<LiteralLine(val)>>

\* x.getColumn(
\*   "val");
SplitFile(val) ==
    <<L0(<<W("x"), P("."), W("getColumn"), P("(")>>), L1(<<S(val), P(")"), P(";")>>)>>

SchemaVals ==
    {"CompanyNam", "CompanyName", "companyname", "CompanyNameZ", "Compony", "Zebra",
     "PrimaryContactNum", "default", "ID"}

\* the literal one, three or four lines away from the column-reference line
Gaps == {0, MaxGap - 1, MaxGap}

SchemaContents ==
    {SchemaFile(tmpl, val, gap, first) :
        tmpl \in Templates, val \in SchemaVals, gap \in Gaps, first \in BOOLEAN}
    \cup {<<LiteralLine(val)>> : val \in SchemaVals}
    \cup {SplitFile(val) : val \in SchemaVals}

\* a FuzzyMatchingUtils.js with, and one without, error handling
FuzzyFiles ==
    {Decl("function", "fuzzyMatchCompany", Ifs(2)),
     Decl("function", "fuzzyMatchCompany",
          <<L1(<<W("try"), P("{"), W("x"), P("("), P(")"), P(";"), P("}"),
                 W("catch"), P("("), W("e"), P(")"), P("{"), P("}")>>)>>)}

SettingsVals == {"Won", "Wonn", "Lead", "Not Contacted"}

\* one literal, and the same literal on two lines
SettingsContents ==
    {<<LiteralLine(val)>> : val \in SettingsVals}
    \cup {<<LiteralLine(val), FillerLine, LiteralLine(val)>> : val \in SettingsVals}

\* the files of the two paths that the cache directory maps to one file name
CacheContents == {FileA, FileB, <<TemplateLine(1, "CompanyNameZ")>>}

-----------------------------------------------------------------------------
(* _parse_file                                                              *)

\* _get_file_hash: hashlib.md5(content).hexdigest().  Two files have the same
\* digest exactly when they have the same content (MD5 collisions aside), and
\* the program only ever compares digests: the digest of a content is written
\* as the content under the tag md5
FileHash(content) == [md5 |-> content]

\* the FileAnalysis a fresh parse builds
Analysis(rel_path, content) ==
    [path |-> rel_path, extension |-> Suffix(rel_path),
     lines_of_code |-> LineCount(content),
     functions |-> IF IsCode(Suffix(rel_path)) THEN JsFunctions(content, rel_path)
                   ELSE IF IsMarkup(Suffix(rel_path))
                        THEN HtmlFunctions(content, rel_path) ELSE <<>>,
     string_literals |-> StringLiterals(content)]

RECURSIVE Register(_, _, _, _)
\* self.functions[f"{rel_path}::{func.name}"] = func for the functions n.. of a
\* record: the value is the place of the object, <<rel_path, index>>
Register(fns, rel_path, funcs, n) ==
    IF n > Len(funcs) THEN fns
    ELSE Register(DictPut(fns, <<rel_path, funcs[n].name>>, <<rel_path, n>>),
                  rel_path, funcs, n + 1)

\* the cache file exists, unpickles, and holds the current hash
CacheHit(rel_path) ==
    /\ CacheFile(rel_path) \in DOMAIN cache
    /\ cache[CacheFile(rel_path)].ok
    /\ cache[CacheFile(rel_path)].hash = FileHash(disk[rel_path])


-----------------------------------------------------------------------------
(* The process: main() runs run_analysis on a fresh analyzer                *)

\* the number of processes started in a behaviour
MaxRuns == 2

\* run_analysis calls the validation passes in this order
RunOrder ==
    <<"schema", "settings", "quality", "security", "performance", "dataflow",
      "configuration", "architecture">>

\* where run_analysis stands when the pass has returned: at the pass that
\* follows it in the order of the calls, or behind the last one
After(pass) ==
    LET k == CHOOSE i \in 1..Len(order) : order[i] = pass
    IN  IF k = Len(order) THEN "done" ELSE order[k + 1]

NoKb == [schema_columns |-> <<>>, valid_outcomes |-> {}, valid_stages |-> {},
         valid_statuses |-> {}]

\* CRMBLUEPRINT_ANALYZER.__init__ and the call of run_analysis: disk, the
\* configuration sources and the cache directory outlive the process
StartRun(max) ==
    /\ pc \in {"idle", "done"}
    /\ runs < max
    /\ pc' = "config"
    /\ runs' = runs + 1
    /\ files' = <<>>
    /\ functions' = <<>>
    /\ kb' = NoKb
    /\ issues' = <<>>
    /\ stats' = NoStats
    /\ todo' = {}
    /\ extracted' = {}
    /\ prevIssues' = issues
    /\ sameInput' = (pc = "done")
    /\ UNCHANGED <<disk, config, cache, edits, stored, unreadable, scores,
                   order, htmlScores>>

\* a variant of the loop of parse_all_files that returns before the last file
AfterFileEarly(left) == IF Cardinality(left) <= 1 THEN "deps" ELSE "parse"

\* parse_all_files returns, and run_analysis goes on to analyze_dependencies,
\* when os.walk has yielded every file; until then the next file is parsed
AfterFile(left) == IF left = {} THEN "deps" ELSE "parse"

\* load_configurations: a schema source (Config.js, else System_Schema.csv)
\* and a settings source (Settings.tsv / Settings.csv) that is present is
\* loaded; one that is absent is reported
load_configurations ==
    /\ pc = "config"
    /\ LET st0 == [issues |-> issues, stats |-> stats]
           st1 == IF config.schema.present THEN st0
                  ELSE add_issue(st0, Issue("CONFIG", 0, "HIGH", "Architecture",
                                            "schema source not found", "", "", 0))
           st2 == IF config.settings.present THEN st1
                  ELSE add_issue(st1, Issue("CONFIG", 0, "HIGH", "Architecture",
                                            "settings source not found", "", "", 0))
       IN  /\ issues' = st2.issues
           /\ stats' = st2.stats
           /\ kb' = [schema_columns |-> IF config.schema.present
                                        THEN config.schema.columns ELSE <<>>,
                     valid_outcomes |-> IF config.settings.present
                                        THEN config.settings.outcomes ELSE {},
                     valid_stages   |-> IF config.settings.present
                                        THEN config.settings.stages ELSE {},
                     valid_statuses |-> IF config.settings.present
                                        THEN config.settings.statuses ELSE {}]
    /\ todo' = {p \in DOMAIN disk : Selected(p)}
    /\ pc' = AfterFile(todo')
    /\ UNCHANGED <<disk, config, cache, files, functions, extracted, prevIssues,
                   sameInput, runs, edits, stored, unreadable, scores,
                   order, htmlScores>>

\* _parse_file(filepath) for the next file os.walk yields.  _get_file_hash
\* reads the file before anything else and outside any try: when the read
\* fails the exception leaves _parse_file, parse_all_files and run_analysis
parse_file(rel_path) ==
    /\ pc = "parse"
    /\ rel_path \in todo
    /\ InSubdir(rel_path) => \A q \in todo : InSubdir(q)
    /\ IF rel_path \in unreadable
       THEN /\ pc' = "crashed"
            /\ UNCHANGED <<cache, todo, files, functions, extracted, stored>>
       ELSE /\ IF CacheHit(rel_path)
               THEN LET analysis == cache[CacheFile(rel_path)].analysis
                    IN  /\ files' = DictPut(files, rel_path, analysis)
                        /\ functions' = Register(functions, rel_path,
                                                 analysis.functions, 1)
                        /\ UNCHANGED <<cache, extracted, stored>>
               ELSE LET file_analysis == Analysis(rel_path, disk[rel_path])
                    IN  /\ files' = DictPut(files, rel_path, file_analysis)
                        /\ functions' = IF IsCode(Suffix(rel_path))
                                        THEN Register(functions, rel_path,
                                                      file_analysis.functions, 1)
                                        ELSE functions
                        /\ cache' = FnPut(cache, CacheFile(rel_path),
                                          [ok |-> TRUE,
                                           hash |-> FileHash(disk[rel_path]),
                                           analysis |-> file_analysis])
                        /\ extracted' = extracted \cup {rel_path}
                        /\ stored' = FnPut(stored, rel_path,
                                           [hash |-> FileHash(disk[rel_path]),
                                            analysis |-> file_analysis])
            /\ todo' = todo \ {rel_path}
            /\ pc' = AfterFile(todo')
    /\ UNCHANGED <<disk, config, kb, issues, stats, prevIssues, sameInput, runs,
                   edits, unreadable, scores,
                   order, htmlScores>>

ParseFile == \E rel_path \in DOMAIN disk : parse_file(rel_path)


-----------------------------------------------------------------------------
(* analyze_dependencies                                                     *)

\* the FunctionInfo object a value of self.functions refers to
FuncAt(fs, ref) == DictGet(fs, ref[1]).functions[ref[2]]

\* the full names whose function calls a function of this name
CallersOf(fns, fs, name) ==
    {fns[i].key : i \in {j \in 1..Len(fns) : name \in FuncAt(fs, fns[j].val).calls}}

\* self.files after the first loop: other_info.called_by.add(full_name) for
\* every function object self.functions holds
WithCalledBy(fns, fs) ==
    [i \in 1..Len(fs) |->
        [key |-> fs[i].key,
         val |-> [fs[i].val EXCEPT !.functions =
                    [n \in 1..Len(fs[i].val.functions) |->
                        IF \E j \in 1..Len(fns) : fns[j].val = <<fs[i].key, n>>
                        THEN [fs[i].val.functions[n] EXCEPT !.called_by =
                                @ \cup CallersOf(fns, fs, fs[i].val.functions[n].name)]
                        ELSE fs[i].val.functions[n]]]]]

\* the allow-list of analyze_dependencies, as written there
Allowlist ==
    {"onopen", "ondopen", "onget", "onpost", "onedit", "onformsubmit", "doGet",
     "doPost", "menu", "show", "display", "render", "init", "setup", "install",
     "click", "change", "submit", "callback", "handler", "evaluate", "gethtml",
     "gettemplate"}

\* any(allow in func_name_lower for allow in allowlist)
InAllowlist(func_name_lower) ==
    \E allow \in Allowlist : Contains(func_name_lower, Chars(allow))

\* func_name_lower.startswith('_') or 'constructor' in func_name_lower
PrivateOrConstructor(func_name_lower) ==
    \/ StartsWith(func_name_lower, <<"_">>)
    \/ Contains(func_name_lower, Chars("constructor"))

\* func_info.complexity_score > 10
OrphanThreshold == 10

\* the test that puts a function on the orphaned list
IsOrphaned(func_info) ==
    LET func_name_lower == Lower(Chars(func_info.name))
    IN  /\ ~InAllowlist(func_name_lower)
        /\ ~PrivateOrConstructor(func_name_lower)
        /\ func_info.called_by = {}
        /\ func_info.complexity_score > OrphanThreshold

OrphanIssue(func) ==
    Issue(func.file, func.line_start, "LOW", "Maintainability", "orphaned",
          func.name, "", func.complexity_score)

analyze_dependencies ==
    /\ pc = "deps"
    /\ LET fs       == WithCalledBy(functions, files)
           infos    == [i \in 1..Len(functions) |-> FuncAt(fs, functions[i].val)]
           orphaned == SelectSeq(infos, IsOrphaned)
           st       == AddAll([issues |-> issues, stats |-> stats],
                              [i \in 1..Len(orphaned) |-> OrphanIssue(orphaned[i])])
       IN  /\ files' = fs
           /\ issues' = st.issues
           /\ stats' = st.stats
    /\ pc' = order[1]
    /\ UNCHANGED <<disk, config, cache, todo, functions, kb, extracted, prevIssues,
                   sameInput, runs, edits, stored, unreadable, scores,
                   order, htmlScores>>


-----------------------------------------------------------------------------
(* _calculate_similarity                                                    *)

Min3(x, y, z) == IF x <= y /\ x <= z THEN x ELSE IF y <= z THEN y ELSE z

RECURSIVE CurrentRow(_, _, _, _, _)
\* the inner loop: current_row, cell by cell
CurrentRow(previous_row, c1, s2, current_row, j) ==
    IF j > Len(s2) THEN current_row
    ELSE LET insertions    == previous_row[j + 1] + 1
             deletions     == current_row[j] + 1
             substitutions == previous_row[j] + (IF c1 # s2[j] THEN 1 ELSE 0)
         IN  CurrentRow(previous_row, c1, s2,
                        Append(current_row, Min3(insertions, deletions, substitutions)),
                        j + 1)

RECURSIVE LastRow(_, _, _, _)
\* the outer loop: previous_row after the characters i.. of s1
LastRow(s1, s2, previous_row, i) ==
    IF i > Len(s1) THEN previous_row
    ELSE LET current_row == CurrentRow(previous_row, s1[i], s2, <<i>>, 1)
         IN  \* previous_row = current_row, once the row is complete
             IF Len(current_row) = Len(s2) + 1
             THEN LastRow(s1, s2, current_row, i + 1)
             ELSE <<>>

\* distance = previous_row[-1], for len(s1) >= len(s2)
Distance(s1, s2) ==
    LastRow(s1, s2, [j \in 1..(Len(s2) + 1) |-> j - 1], 1)[Len(s2) + 1]

\* _calculate_similarity(s1, s2) as the fraction num/den it returns
calculate_similarity(s1, s2) ==
    LET long  == IF Len(s1) < Len(s2) THEN s2 ELSE s1
        short == IF Len(s1) < Len(s2) THEN s1 ELSE s2
    IN  IF Len(short) = 0 THEN [num |-> 0, den |-> 1]
        ELSE [num |-> Len(long) - Distance(long, short), den |-> Len(long)]

\* a variant of the typo band whose lower threshold is inclusive
LikelyTypoInclusive(sim) == 85 * sim.den <= 100 * sim.num /\ sim.num < sim.den

\* 0.85 < similarity < 1.0.  The quotient is the double nearest to num/den and
\* 0.85 the double nearest to 17/20; for strings this short no other quotient
\* lies within rounding of 17/20, so the comparison is that of the fractions.
LikelyTypo(sim) == 85 * sim.den < 100 * sim.num /\ sim.num < sim.den

-----------------------------------------------------------------------------
(* validate_schema_references                                               *)

\* the false_positives set
StopList ==
    {"val", "value", "item", "key", "name", "id", "data", "result",
     "get", "post", "put", "delete", "true", "false", "null", "undefined",
     "red", "blue", "green", "yellow", "orange", "purple", "black", "white",
     "application/json", "text/html", "text/plain", "application/xml",
     "center", "left", "right", "top", "bottom", "middle",
     "default", "return", "continue", "break", "switch", "case"}

\* context_lines of _get_code_context
ContextLines == 3

\* _get_code_context: the lines line_num - 3 .. line_num + 3 that exist, as one
\* token stream; the target line is prefixed with ">>> "
RECURSIVE ContextFrom(_, _, _, _)
ContextFrom(lines, i, end_line, line_num) ==
    IF i > end_line THEN <<>>
    ELSE (IF i = line_num THEN <<[t |-> P(">>>"), ln |-> i, first |-> TRUE]>>
          ELSE <<>>)
         \o [j \in 1..Len(lines[i].toks) |->
                [t |-> lines[i].toks[j], ln |-> i, first |-> (j = 1)]]
         \o ContextFrom(lines, i + 1, end_line, line_num)

get_code_context(lines, line_num) ==
    LET start_line == IF line_num - ContextLines - 1 > 0
                      THEN line_num - ContextLines - 1 ELSE 0
        end_line   == IF Len(lines) < line_num + ContextLines
                      THEN Len(lines) ELSE line_num + ContextLines
    IN  ContextFrom(lines, start_line + 1, end_line, line_num)

EndsWith(hay, suffix) ==
    /\ Len(suffix) <= Len(hay)
    /\ \A j \in 1..Len(suffix) : hay[Len(hay) - Len(suffix) + j] = suffix[j]

\* under re.IGNORECASE: a word that ends with, is, or starts with a keyword
WordEnds(t, kw) == IsWord(t) /\ EndsWith(Lower(Chars(t.v)), Lower(Chars(kw)))
WordIs(t, kw) == IsWord(t) /\ Lower(Chars(t.v)) = Lower(Chars(kw))
WordStarts(t, kw) == IsWord(t) /\ StartsWith(Lower(Chars(t.v)), Lower(Chars(kw)))

\* ["\']VAL["\']: a literal whose text is VAL, letter case ignored
LitIs(t, val) == t.k = "s" /\ Lower(Chars(t.v)) = Lower(Chars(val))

\* VAL somewhere in the text of a token, letter case ignored
TextHas(t, val) == Contains(Lower(Chars(t.v)), Lower(Chars(val)))

\* .*VAL: VAL in the rest of the line of position i: in what follows the
\* keyword kw in the word at i, or in a later token of that line
LaterOnLine(w, i, kw, val) ==
    \/ LET cs == Lower(Chars(w[i].t.v))
       IN  Contains(SubSeq(cs, Len(Chars(kw)) + 1, Len(cs)), Lower(Chars(val)))
    \/ \E j \in (i + 1)..Len(w) : w[j].ln = w[i].ln /\ TextHas(w[j].t, val)

\* the six column_context_patterns, tried at position i of a token stream
ColumnTemplateAt(w, i, val) ==
    \/ /\ WordEnds(At(w, i), "getColumn") /\ At(w, i + 1) = P("(")
       /\ LitIs(At(w, i + 2), val)
    \/ /\ WordEnds(At(w, i), "headers") /\ At(w, i + 1) = P("[")
       /\ w[i + 1].ln = w[i].ln
       /\ LitIs(At(w, i + 2), val) /\ At(w, i + 3) = P("]")
    \/ /\ WordEnds(At(w, i), "header") /\ At(w, i + 1) \in {P("=="), P("===")}
       /\ LitIs(At(w, i + 2), val)
    \/ /\ At(w, i) = P(".") /\ WordIs(At(w, i + 1), "getRange")
       /\ At(w, i + 2) = P("(") /\ w[i + 2].ln = w[i].ln
       /\ \E j \in (i + 3)..Len(w) :
              /\ w[j].t = P(",") /\ w[j].ln = w[i].ln
              /\ LitIs(At(w, j + 1), val)
    \/ /\ WordEnds(At(w, i), "SpreadsheetApp") /\ At(w, i + 1) = P(".")
       /\ WordStarts(At(w, i + 2), "getSheetByName") /\ w[i + 2].ln = w[i].ln
       /\ LaterOnLine(w, i + 2, "getSheetByName", val)
    \/ /\ WordEnds(At(w, i), "sheet") /\ At(w, i + 1) = P(".")
       /\ WordStarts(At(w, i + 2), "getRange") /\ w[i + 2].ln = w[i].ln
       /\ LaterOnLine(w, i + 2, "getRange", val)

\* is_column_context
is_column_context(lines, line_num, val) ==
    LET code_context == get_code_context(lines, line_num)
    IN  \E i \in 1..Len(code_context) : ColumnTemplateAt(code_context, i, val)

\* all_columns: the union of the columns of every schema object
AllColumns(schema_columns) ==
    UNION {schema_columns[o].val : o \in DOMAIN schema_columns}

\* the orders in which the set all_columns may be iterated
Orders(set) ==
    {ord \in [1..Cardinality(set) -> set] :
        \A i, j \in 1..Cardinality(set) : i # j => ord[i] # ord[j]}

\* for col in all_columns: ... break -- the first column, in iteration order,
\* whose similarity lies in the typo band; "" when there is none
FirstTypo(val, ord) ==
    LET hits == {k \in 1..Len(ord) :
                    LikelyTypo(calculate_similarity(Chars(val), Chars(ord[k])))}
    IN  IF hits = {} THEN ""
        ELSE ord[CHOOSE k \in hits : \A h \in hits : k <= h]

\* a variant of the gate that leaves out the column context
CheckedAnywhere(lines, line_num, val, all_columns) ==
    /\ Len(Chars(val)) >= 3
    /\ Lower(Chars(val)) \notin {Chars(fp) : fp \in StopList}
    /\ val \notin all_columns

\* a literal the loop checks for typos: long enough, not on the stop-list, in
\* column context, and not a schema column itself
Checked(lines, line_num, val, all_columns) ==
    /\ Len(Chars(val)) >= 3
    /\ Lower(Chars(val)) \notin {Chars(fp) : fp \in StopList}
    /\ is_column_context(lines, line_num, val)
    /\ val \notin all_columns

RECURSIVE FileTypos(_, _, _, _, _, _)
\* the issues of one file, literal by literal from the n-th on
FileTypos(rel_path, lines, lits, n, all_columns, ord) ==
    IF n > Len(lits) THEN <<>>
    ELSE LET line_num == lits[n][1]
             val      == lits[n][2]
             col      == IF Checked(lines, line_num, val, all_columns)
                         THEN FirstTypo(val, ord) ELSE ""
         IN  (IF col # ""
              THEN <<Issue(rel_path, line_num, "MEDIUM", "Schema", "schema typo",
                           val, col, 0)>>
              ELSE <<>>)
             \o FileTypos(rel_path, lines, lits, n + 1, all_columns, ord)

RECURSIVE SchemaTypos(_, _, _, _)
\* for rel_path, file_analysis in self.files.items(): the file is read again
SchemaTypos(fs, n, all_columns, ord) ==
    IF n > Len(fs) THEN <<>>
    ELSE FileTypos(fs[n].key, disk[fs[n].key], fs[n].val.string_literals, 1,
                   all_columns, ord)
         \o SchemaTypos(fs, n + 1, all_columns, ord)

RequiredFunctions ==
    <<"fuzzyMatchCompany", "calculateStringSimilarity", "levenshteinDistance",
      "normalizeCompanyName">>

TestFailures ==
    <<"testFuzzyMatchingLogic", "testFuzzyMatchingLogicExtended",
      "testDataSynchronizationBasic", "testCSVImportWorkflow">>

\* a variant of _validate_fuzzy_matching_issues that reports the failing tests
\* only when FuzzyMatchingUtils.js lacks a required function
FuzzyMatchingIssuesWhenIncomplete(fs) ==
    IF ~DictHas(fs, "FuzzyMatchingUtils.js")
    THEN <<Issue("PROJECT", 0, "HIGH", "Code Quality",
                 "FuzzyMatchingUtils.js not found", "", "", 0)>>
    ELSE LET fuzzy_file == DictGet(fs, "FuzzyMatchingUtils.js")
             found   == {fuzzy_file.functions[k].name :
                            k \in 1..Len(fuzzy_file.functions)}
             missing == SelectSeq(RequiredFunctions, LAMBDA r : r \notin found)
         IN  IF missing = <<>> THEN <<>>
             ELSE [k \in 1..Len(missing) |->
                      Issue("FuzzyMatchingUtils.js", 0, "HIGH", "Code Quality",
                            "required function not found", missing[k], "", 0)]
                  \o [k \in 1..Len(TestFailures) |->
                      Issue("test_integration.js", 0, "MEDIUM", "Code Quality",
                            "test failing", TestFailures[k], "", 0)]

\* _validate_fuzzy_matching_issues: the issues it adds
FuzzyMatchingIssues(fs) ==
    IF ~DictHas(fs, "FuzzyMatchingUtils.js")
    THEN <<Issue("PROJECT", 0, "HIGH", "Code Quality",
                 "FuzzyMatchingUtils.js not found", "", "", 0)>>
    ELSE LET fuzzy_file == DictGet(fs, "FuzzyMatchingUtils.js")
             found   == {fuzzy_file.functions[k].name :
                            k \in 1..Len(fuzzy_file.functions)}
             missing == SelectSeq(RequiredFunctions, LAMBDA r : r \notin found)
             hits    == {k \in 1..Len(fuzzy_file.functions) :
                            fuzzy_file.functions[k].name = "fuzzyMatchCompany"}
         IN  [k \in 1..Len(missing) |->
                 Issue("FuzzyMatchingUtils.js", 0, "HIGH", "Code Quality",
                       "required function not found", missing[k], "", 0)]
             \o [k \in 1..Len(TestFailures) |->
                 Issue("test_integration.js", 0, "MEDIUM", "Code Quality",
                       "test failing", TestFailures[k], "", 0)]
             \o (IF hits = {} THEN <<>>
                 ELSE LET f == fuzzy_file.functions[CHOOSE k \in hits :
                                                       \A h \in hits : k <= h]
                      IN  IF f.has_error_handling THEN <<>>
                          ELSE <<Issue("FuzzyMatchingUtils.js", f.line_start, "MEDIUM",
                                       "Error Handling",
                                       "fuzzyMatchCompany lacks error handling",
                                       "", "", 0)>>)

validate_schema_references ==
    /\ pc = "schema"
    /\ \E ord \in Orders(AllColumns(kb.schema_columns)) :
          LET st == AddAll([issues |-> issues, stats |-> stats],
                           SchemaTypos(files, 1, AllColumns(kb.schema_columns), ord)
                           \o FuzzyMatchingIssues(files))
          IN  issues' = st.issues /\ stats' = st.stats
    /\ pc' = After("schema")
    /\ UNCHANGED <<disk, config, cache, todo, files, functions, kb, extracted,
                   prevIssues, sameInput, runs, edits, stored, unreadable, scores,
                   order, htmlScores>>

-----------------------------------------------------------------------------
(* validate_settings_references                                             *)

\* a variant of _looks_like_outcome that also accepts a value more than half
\* similar to a valid outcome
looks_like_outcome_fuzzy(val) ==
    \/ val \in kb.valid_outcomes
    \/ \E o \in kb.valid_outcomes :
          LET sim == calculate_similarity(Chars(val), Chars(o))
          IN  2 * sim.num > sim.den

\* _looks_like_outcome, _looks_like_stage
looks_like_outcome(val) == val \in kb.valid_outcomes
looks_like_stage(val) == val \in kb.valid_stages

\* a variant of the path test that looks for "Outreach" as written only
OutreachPathAsWritten(rel_path) == Contains(Chars(rel_path), Chars("Outreach"))

\* "Outreach" in rel_path or "outreach" in rel_path.lower()
OutreachPath(rel_path) ==
    \/ Contains(Chars(rel_path), Chars("Outreach"))
    \/ Contains(Lower(Chars(rel_path)), Chars("outreach"))

\* the issues one literal of one file raises, in the order of the three checks
LiteralSettingsIssues(rel_path, line_num, string_val) ==
    (IF looks_like_outcome(string_val) /\ string_val \notin kb.valid_outcomes
     THEN <<Issue(rel_path, line_num, "HIGH", "Settings", "invalid outcome",
                  string_val, "", 0)>>
     ELSE <<>>)
    \o (IF looks_like_stage(string_val) /\ string_val \notin kb.valid_stages
        THEN <<Issue(rel_path, line_num, "MEDIUM", "Settings", "invalid stage",
                     string_val, "", 0)>>
        ELSE <<>>)
    \o (IF string_val = "Not Contacted" /\ OutreachPath(rel_path)
        THEN <<Issue(rel_path, line_num, "HIGH", "Settings", "banned status",
                     "", "", 0)>>
        ELSE <<>>)

RECURSIVE FileSettingsIssues(_, _, _)
FileSettingsIssues(rel_path, lits, n) ==
    IF n > Len(lits) THEN <<>>
    ELSE LiteralSettingsIssues(rel_path, lits[n][1], lits[n][2])
         \o FileSettingsIssues(rel_path, lits, n + 1)

RECURSIVE SettingsIssues(_, _)
SettingsIssues(fs, n) ==
    IF n > Len(fs) THEN <<>>
    ELSE FileSettingsIssues(fs[n].key, fs[n].val.string_literals, 1)
         \o SettingsIssues(fs, n + 1)

validate_settings_references ==
    /\ pc = "settings"
    /\ LET st == AddAll([issues |-> issues, stats |-> stats], SettingsIssues(files, 1))
       IN  issues' = st.issues /\ stats' = st.stats
    /\ pc' = After("settings")
    /\ UNCHANGED <<disk, config, cache, todo, files, functions, kb, extracted,
                   prevIssues, sameInput, runs, edits, stored, unreadable, scores,
                   order, htmlScores>>

-----------------------------------------------------------------------------
(* analyze_code_quality                                                     *)

\* the content a later pass reads back from disk for a file of self.files; the
\* open() sits inside try/except, so a file that cannot be read is passed over
Readable(rel_path) == rel_path \in DOMAIN disk /\ rel_path \notin unreadable

\* the thresholds of the three checks on a function
SimpleScore == 3
HighScore == 15
UnguardedScore == 8
SilentCalls == 5
SilentScore == 5

\* the issues of one function, in the order of the three checks
FunctionQualityIssues(rel_path, func) ==
    IF func.complexity_score <= SimpleScore THEN <<>>
    ELSE (IF func.complexity_score > HighScore
          THEN <<Issue(rel_path, func.line_start, "MEDIUM", "Code Quality",
                       "high complexity", func.name, "", func.complexity_score)>>
          ELSE <<>>)
         \o (IF ~func.has_error_handling /\ func.complexity_score > UnguardedScore
             THEN <<Issue(rel_path, func.line_start, "MEDIUM", "Error Handling",
                          "lacks error handling", func.name, "",
                          func.complexity_score)>>
             ELSE <<>>)
         \o (IF /\ ~func.has_logging
                /\ Cardinality(func.calls) > SilentCalls
                /\ func.complexity_score > SilentScore
             THEN <<Issue(rel_path, func.line_start, "LOW", "Code Quality",
                          "no logging", func.name, "", Cardinality(func.calls))>>
             ELSE <<>>)

RECURSIVE Concat(_)
\* the sequences of a sequence, one after another
Concat(seqs) ==
    IF seqs = <<>> THEN <<>> ELSE seqs[1] \o Concat(SubSeq(seqs, 2, Len(seqs)))

\* for func in file_analysis.functions
FileQualityIssues(rel_path, funcs) ==
    Concat([n \in 1..Len(funcs) |-> FunctionQualityIssues(rel_path, funcs[n])])

\* for rel_path, file_analysis in self.files.items(): only .js and .gs
QualityIssues(fs) ==
    Concat([n \in 1..Len(fs) |->
               IF IsCode(fs[n].val.extension) /\ Readable(fs[n].key)
               THEN FileQualityIssues(fs[n].key, fs[n].val.functions) ELSE <<>>])

analyze_code_quality ==
    /\ pc = "quality"
    /\ LET st == AddAll([issues |-> issues, stats |-> stats], QualityIssues(files))
       IN  issues' = st.issues /\ stats' = st.stats
    /\ pc' = After("quality")
    /\ UNCHANGED <<disk, config, cache, todo, files, functions, kb, extracted,
                   prevIssues, sameInput, runs, edits, stored, unreadable, scores,
                   order, htmlScores>>

-----------------------------------------------------------------------------
(* The text of a file.  The passes below count characters, so the text the  *)
(* lines stand for is fixed: the tokens of a line follow one another with   *)
(* one space between two words and on either side of "=", an indented line  *)
(* starts with two spaces, and the lines are joined with "\n".              *)

\* a run of n semicolons
Semis(n) == [k |-> "x", v |-> ";", n |-> n]

\* the number of characters of a token; a literal has its two quotes
TokLen(t) ==
    IF t.k = "x" THEN t.n
    ELSE IF t.k = "s" THEN Len(Chars(t.v)) + 2
    ELSE Len(Chars(t.v))

Spaced(a, b) == (IsWord(a) /\ IsWord(b)) \/ a = P("=") \/ b = P("=")

\* the characters of the lines from..to that their indentation makes up
IndentChars(content, from, to) ==
    2 * Cardinality({l \in from..to : content[l].indent})

\* the characters between token i and the token before it (the start of the
\* file for the first token)
Gap(content, f, i) ==
    IF i = 1 THEN (f[1].ln - 1) + IndentChars(content, 1, f[1].ln)
    ELSE IF f[i].ln # f[i - 1].ln
         THEN (f[i].ln - f[i - 1].ln) + IndentChars(content, f[i - 1].ln + 1, f[i].ln)
         ELSE IF Spaced(f[i - 1].t, f[i].t) THEN 1 ELSE 0

\* the offset in the text of the first character of token i, and of the
\* character after its last
StartOf(content, f, i) ==
    Cardinality(UNION {{<<j, c>> : c \in 1..(Gap(content, f, j) + TokLen(f[j].t))} :
                          j \in 1..(i - 1)})
    + Gap(content, f, i)

EndOf(content, f, i) == StartOf(content, f, i) + TokLen(f[i].t)

\* the places in hay where needle starts
Places(hay, needle) ==
    {i \in 1..(Len(hay) - Len(needle) + 1) :
        \A j \in 1..Len(needle) : hay[i + j - 1] = needle[j]}

\* a word that ends with a keyword, letter case included
WordEndsExact(t, kw) == IsWord(t) /\ EndsWith(Chars(t.v), Chars(kw))

-----------------------------------------------------------------------------
(* analyze_security                                                         *)

\* the positions of the stream whose token is on line ln
OnLine(f, ln) == {i \in 1..Len(f) : f[i].ln = ln}

\* 'sanitizeHtml' in line_content
LineHasSanitizer(f, ln) ==
    \E i \in OnLine(f, ln) :
        f[i].t.k \in {"w", "s"} /\ Contains(Chars(f[i].t.v), Chars("sanitizeHtml"))

\* re.search(r"\.innerHTML\s*=\s*['\"]\s*['\"]", line_content): the empty
\* literal is the token ''
LineClears(f, ln) ==
    \E i \in OnLine(f, ln) :
        /\ f[i].t = P(".") /\ At(f, i + 1) = W("innerHTML") /\ At(f, i + 2) = P("=")
        /\ At(f, i + 3) = P("''") /\ f[i + 3].ln = ln

Suppressed(f, ln) == LineHasSanitizer(f, ln) \/ LineClears(f, ln)

\* r'\beval\s*\(' under re.IGNORECASE
MatchEval(f, i) == WordIs(f[i].t, "eval") /\ At(f, i + 1) = P("(")

\* r'document\.write\s*\(' under re.IGNORECASE
MatchWrite(f, i) ==
    /\ WordEnds(f[i].t, "document")
    /\ At(f, i + 1) = P(".") /\ f[i + 1].ln = f[i].ln
    /\ WordIs(At(f, i + 2), "write") /\ f[i + 2].ln = f[i].ln
    /\ At(f, i + 3) = P("(")

\* r'http://(?!localhost)' under re.IGNORECASE, in a literal: <<position of
\* the literal, place in its text>>
UrlMatches(f) ==
    UNION {{<<i, p>> : p \in {q \in Places(Lower(Chars(f[i].t.v)), Chars("http://")) :
                                q + 7 \notin Places(Lower(Chars(f[i].t.v)),
                                                    Chars("localhost"))}} :
              i \in {j \in 1..Len(f) : f[j].t.k = "s"}}

\* a set of <<position, place>> in the order of the text
InTextOrder(ms) ==
    LET before(m) == {x \in ms : x[1] < m[1] \/ (x[1] = m[1] /\ x[2] < m[2])}
    IN  [k \in 1..Cardinality(ms) |-> CHOOSE m \in ms : Cardinality(before(m)) = k - 1]

\* the matches of security_patterns that are reported, pattern by pattern and
\* in the order of the text
BasicSecurityIssues(rel_path, f) ==
    LET places == [i \in 1..Len(f) |-> i]
        evals  == SelectSeq(places, LAMBDA i : MatchEval(f, i) /\ ~Suppressed(f, f[i].ln))
        writes == SelectSeq(places, LAMBDA i : MatchWrite(f, i) /\ ~Suppressed(f, f[i].ln))
        urls   == InTextOrder({m \in UrlMatches(f) : ~Suppressed(f, f[m[1]].ln)})
    IN  [k \in 1..Len(evals) |->
            Issue(rel_path, f[evals[k]].ln, "CRITICAL", "Security", "eval", "", "", 0)]
        \o [k \in 1..Len(writes) |->
               Issue(rel_path, f[writes[k]].ln, "MEDIUM", "Security", "document.write",
                     "", "", 0)]
        \o [k \in 1..Len(urls) |->
               Issue(rel_path, f[urls[k][1]].ln, "MEDIUM", "Security", "non-HTTPS URL",
                     "", "", 0)]

\* r'\.innerHTML\s*=\s*([^=].*)$' under re.IGNORECASE alone: "." stops at a
\* line end and "$" is the end of the text (or the "\n" that ends it), so the
\* assigned text has to be on the last line of the file.  The text after "="
\* is not empty in the files of the corpus.
MatchInnerHtml(content, f, i) ==
    /\ f[i].t = P(".")
    /\ WordIs(At(f, i + 1), "innerHTML") /\ f[i + 1].ln = f[i].ln
    /\ At(f, i + 2) = P("=")
    /\ i + 3 <= Len(f)
    /\ f[i + 3].ln = f[Len(f)].ln
    /\ \/ Len(content) = f[Len(f)].ln
       \/ Len(content) = f[Len(f)].ln + 1 /\ ~content[Len(content)].indent

\* 'function sanitizeHtml' in content or 'sanitizeHtml = ' in content
DefinesSanitizer(f) ==
    \E i \in 1..Len(f) :
        \/ /\ WordEndsExact(f[i].t, "function")
           /\ IsWord(At(f, i + 1)) /\ f[i + 1].ln = f[i].ln
           /\ StartsWith(Chars(f[i + 1].t.v), Chars("sanitizeHtml"))
        \/ /\ WordEndsExact(f[i].t, "sanitizeHtml")
           /\ At(f, i + 1) = P("=") /\ f[i + 1].ln = f[i].ln
           /\ i + 2 <= Len(f) /\ f[i + 2].ln = f[i].ln

\* re.finditer yields the leftmost match, which runs to the end of the text
InnerHtmlIssues(rel_path, content, f) ==
    LET hits == {i \in 1..Len(f) : MatchInnerHtml(content, f, i)}
    IN  IF hits = {} THEN <<>>
        ELSE LET i == CHOOSE h \in hits : \A g \in hits : h <= g
             IN  IF Suppressed(f, f[i].ln) \/ DefinesSanitizer(f) THEN <<>>
                 ELSE <<Issue(rel_path, f[i].ln, "MEDIUM", "Security", "innerHTML",
                              "", "", 0)>>

FileSecurityIssues(rel_path, content) ==
    BasicSecurityIssues(rel_path, Flat(content))
    \o InnerHtmlIssues(rel_path, content, Flat(content))

\* for rel_path, file_analysis in self.files.items(): every file
SecurityIssues(fs) ==
    Concat([n \in 1..Len(fs) |->
               IF Readable(fs[n].key) THEN FileSecurityIssues(fs[n].key, disk[fs[n].key])
               ELSE <<>>])

analyze_security ==
    /\ pc = "security"
    /\ LET st == AddAll([issues |-> issues, stats |-> stats], SecurityIssues(files))
       IN  issues' = st.issues /\ stats' = st.stats
    /\ pc' = After("security")
    /\ UNCHANGED <<disk, config, cache, todo, files, functions, kb, extracted,
                   prevIssues, sameInput, runs, edits, stored, unreadable, scores,
                   order, htmlScores>>

-----------------------------------------------------------------------------
(* analyze_performance                                                      *)

\* the number of characters [^}]{0,200} and [^}]{0,500} may span, and the
\* number of characters before an appendRow that are searched for a loop
RangeWindow == 200
DataRangeWindow == 500
LoopContext == 200

\* r'for\s*\([^)]+\)' from position i: the position of the ")", 0 when the
\* pattern does not match there
ForHead(f, i) ==
    IF WordEnds(f[i].t, "for") /\ At(f, i + 1) = P("(")
       /\ CloseParen(f, i + 2) > i + 2
    THEN CloseParen(f, i + 2) ELSE 0

\* [^}]{0,window}keyword from the "{" at position open: the positions of the
\* words that end with the keyword and are that near, with no "}" in between
Within(content, f, open, keyword, window) ==
    {g \in (open + 1)..Len(f) :
        /\ WordEnds(f[g].t, keyword)
        /\ \A j \in (open + 1)..(g - 1) : f[j].t # P("}")
        /\ EndOf(content, f, g) - Len(Chars(keyword)) - EndOf(content, f, open)
               <= window}

Last(set) == CHOOSE x \in set : \A y \in set : y <= x

\* r'for\s*\([^)]+\)\s*\{[^}]{0,200}getRange\s*\(' from position i: the
\* position of the "(" that ends the match, 0 when there is no match.  The
\* quantifier is greedy: the match ends at the last call it can reach.
MatchRangeLoop(content, f, i) ==
    LET close == ForHead(f, i)
        calls == IF close # 0 /\ At(f, close + 1) = P("{")
                 THEN {g \in Within(content, f, close + 1, "getRange", RangeWindow) :
                          At(f, g + 1) = P("(")}
                 ELSE {}
    IN  IF calls = {} THEN 0 ELSE Last(calls) + 1

\* r'for\s*\([^)]+\)[^{]*\{[^}]{0,500}getDataRange\s*\(\)' from position i
MatchDataRangeLoop(content, f, i) ==
    LET close == ForHead(f, i)
        opens == IF close = 0 THEN {} ELSE {j \in (close + 1)..Len(f) : f[j].t = P("{")}
        open  == CHOOSE j \in opens : \A h \in opens : j <= h
        calls == IF opens = {} THEN {}
                 ELSE {g \in Within(content, f, open, "getDataRange", DataRangeWindow) :
                          At(f, g + 1) = P("(") /\ At(f, g + 2) = P(")")}
    IN  IF calls = {} THEN 0 ELSE Last(calls) + 2

RECURSIVE NonOverlapping(_, _)
\* re.finditer: the positions where the matches start, ends[j] being where
\* the match from position j ends (0 for none); each search starts after the
\* end of the match before
NonOverlapping(ends, i) ==
    LET hits == {j \in i..Len(ends) : ends[j] # 0}
    IN  IF hits = {} THEN <<>>
        ELSE LET j == CHOOSE h \in hits : \A g \in hits : h <= g
             IN  <<j>> \o NonOverlapping(ends, ends[j] + 1)

\* r'appendRow\s*\('
MatchAppend(f, g) == WordEnds(f[g].t, "appendRow") /\ At(f, g + 1) = P("(")

\* the offsets in the text at which word occurs in the token at position j
WordOffsets(content, f, j, word) ==
    IF f[j].t.k = "x" THEN {}
    ELSE {StartOf(content, f, j) + p - 1 + (IF f[j].t.k = "s" THEN 1 ELSE 0) :
             p \in Places(Chars(f[j].t.v), Chars(word))}

\* 'for' in loop_context or 'while' in loop_context, loop_context being the
\* 200 characters before the match that starts inside the token at g
InLoopContext(content, f, g) ==
    LET start == EndOf(content, f, g) - Len(Chars("appendRow"))
    IN  \E j \in 1..g, word \in {"for", "while"} :
            \E o \in WordOffsets(content, f, j, word) :
                o >= start - LoopContext /\ o + Len(Chars(word)) <= start

FilePerformanceIssues(rel_path, content) ==
    LET f       == Flat(content)
        data    == NonOverlapping([j \in 1..Len(f) |-> MatchDataRangeLoop(content, f, j)], 1)
        range   == NonOverlapping([j \in 1..Len(f) |-> MatchRangeLoop(content, f, j)], 1)
        appends == SelectSeq([i \in 1..Len(f) |-> i],
                             LAMBDA g : MatchAppend(f, g) /\ InLoopContext(content, f, g))
    IN  [k \in 1..Len(data) |->
            Issue(rel_path, f[data[k]].ln, "HIGH", "Performance", "getDataRange in loop",
                  "", "", 0)]
        \o [k \in 1..Len(range) |->
               Issue(rel_path, f[range[k]].ln, "HIGH", "Performance", "getRange in loop",
                     "", "", 0)]
        \o [k \in 1..Len(appends) |->
               Issue(rel_path, f[appends[k]].ln, "MEDIUM", "Performance", "appendRow",
                     "", "", 0)]

\* for rel_path, file_analysis in self.files.items(): only .js and .gs
PerformanceIssues(fs) ==
    Concat([n \in 1..Len(fs) |->
               IF IsCode(fs[n].val.extension) /\ Readable(fs[n].key)
               THEN FilePerformanceIssues(fs[n].key, disk[fs[n].key]) ELSE <<>>])

analyze_performance ==
    /\ pc = "performance"
    /\ LET st == AddAll([issues |-> issues, stats |-> stats],
                        PerformanceIssues(files))
       IN  issues' = st.issues /\ stats' = st.stats
    /\ pc' = After("performance")
    /\ UNCHANGED <<disk, config, cache, todo, files, functions, kb, extracted,
                   prevIssues, sameInput, runs, edits, stored, unreadable, scores,
                   order, htmlScores>>

-----------------------------------------------------------------------------
(* analyze_data_flow                                                        *)

\* the characters \w matches
WordChars ==
    {"a", "b", "c", "d", "e", "f", "g", "h", "i", "j", "k", "l", "m", "n", "o",
     "p", "q", "r", "s", "t", "u", "v", "w", "x", "y", "z",
     "A", "B", "C", "D", "E", "F", "G", "H", "I", "J", "K", "L", "M", "N", "O",
     "P", "Q", "R", "S", "T", "U", "V", "W", "X", "Y", "Z",
     "0", "1", "2", "3", "4", "5", "6", "7", "8", "9", "_"}

\* r'getSheetByName\s*\(\s*["\'](\w+)["\']\s*\)' at position i of the stream
MatchSheetRead(f, i) ==
    /\ WordEndsExact(f[i].t, "getSheetByName")
    /\ At(f, i + 1) = P("(")
    /\ At(f, i + 2).k = "s"
    /\ \A c \in 1..Len(Chars(At(f, i + 2).v)) : Chars(At(f, i + 2).v)[c] \in WordChars
    /\ At(f, i + 3) = P(")")

\* the reads of one file whose sheet_name is not a key of self.schema_columns
FileDataFlowIssues(rel_path, content) ==
    LET f    == Flat(content)
        hits == SelectSeq([i \in 1..Len(f) |-> i],
                          LAMBDA i : /\ MatchSheetRead(f, i)
                                     /\ ~DictHas(kb.schema_columns, f[i + 2].t.v))
    IN  [k \in 1..Len(hits) |->
            Issue(rel_path, f[hits[k]].ln, "MEDIUM", "Schema", "undocumented sheet",
                  f[hits[k] + 2].t.v, "", 0)]

\* for rel_path, file_analysis in self.files.items(): only .js and .gs
DataFlowIssues(fs) ==
    Concat([n \in 1..Len(fs) |->
               IF IsCode(fs[n].val.extension) /\ Readable(fs[n].key)
               THEN FileDataFlowIssues(fs[n].key, disk[fs[n].key]) ELSE <<>>])

analyze_data_flow ==
    /\ pc = "dataflow"
    /\ LET st == AddAll([issues |-> issues, stats |-> stats], DataFlowIssues(files))
       IN  issues' = st.issues /\ stats' = st.stats
    /\ pc' = After("dataflow")
    /\ UNCHANGED <<disk, config, cache, todo, files, functions, kb, extracted,
                   prevIssues, sameInput, runs, edits, stored, unreadable, scores,
                   order, htmlScores>>

-----------------------------------------------------------------------------
(* validate_configuration                                                   *)

required_columns_by_sheet ==
    <<[key |-> "Prospects", val |-> <<"Company ID", "Company Name", "Contact Status">>],
      [key |-> "Outreach", val |-> <<"Outreach ID", "Company ID", "Outcome">>],
      [key |-> "Accounts", val |-> <<"Company Name", "Contact Name">>]>>

\* set(required_cols) - self.schema_columns[sheet], empty for a sheet the
\* schema does not have
Missing(n) ==
    LET sheet == required_columns_by_sheet[n].key
        required_cols == required_columns_by_sheet[n].val
    IN  IF DictHas(kb.schema_columns, sheet)
        THEN {required_cols[k] : k \in 1..Len(required_cols)}
                 \ DictGet(kb.schema_columns, sheet)
        ELSE {}

RECURSIVE JoinCode(_, _)
\* ', '.join(missing) for one iteration order of the set: the text is written
\* as the number whose decimal digits are the places of the joined names in
\* required_cols
JoinCode(required_cols, ord) ==
    IF ord = <<>> THEN 0
    ELSE JoinCode(required_cols, SubSeq(ord, 1, Len(ord) - 1)) * 10
         + (CHOOSE k \in 1..Len(required_cols) : required_cols[k] = ord[Len(ord)])

\* the issue of sheet n when the set is iterated in the order ord
ConfigurationIssue(n, ord) ==
    IF ord = <<>> THEN <<>>
    ELSE <<Issue("Config.js", 0, "HIGH", "Schema", "missing required columns",
                 required_columns_by_sheet[n].key, "",
                 JoinCode(required_columns_by_sheet[n].val, ord))>>

validate_configuration ==
    /\ pc = "configuration"
    /\ \E o1 \in Orders(Missing(1)), o2 \in Orders(Missing(2)), o3 \in Orders(Missing(3)) :
          LET st == AddAll([issues |-> issues, stats |-> stats],
                           ConfigurationIssue(1, o1) \o ConfigurationIssue(2, o2)
                           \o ConfigurationIssue(3, o3))
          IN  issues' = st.issues /\ stats' = st.stats
    /\ pc' = After("configuration")
    /\ UNCHANGED <<disk, config, cache, todo, files, functions, kb, extracted,
                   prevIssues, sameInput, runs, edits, stored, unreadable, scores,
                   order, htmlScores>>

-----------------------------------------------------------------------------
(* analyze_architecture                                                     *)

\* files_without_error_handling[:5]
ReportedFiles == 5

\* the .js and .gs files of self.files, in order, that have functions and none
\* with error handling
FilesWithoutErrorHandling(fs) ==
    LET bare == SelectSeq(fs, LAMBDA e :
                    /\ IsCode(e.val.extension)
                    /\ Len(e.val.functions) > 0
                    /\ \A k \in 1..Len(e.val.functions) :
                          ~e.val.functions[k].has_error_handling)
    IN  [k \in 1..Len(bare) |-> bare[k].key]

ArchitectureIssues(fs) ==
    LET bare == FilesWithoutErrorHandling(fs)
        kept == IF Len(bare) > ReportedFiles THEN SubSeq(bare, 1, ReportedFiles) ELSE bare
    IN  (IF ~DictHas(fs, "Config.js")
         THEN <<Issue("PROJECT", 0, "HIGH", "Architecture", "Config.js not found",
                      "", "", 0)>>
         ELSE <<>>)
        \o [k \in 1..Len(kept) |->
               Issue(kept[k], 0, "LOW", "Error Handling", "file lacks error handling",
                     "", "", 0)]

analyze_architecture ==
    /\ pc = "architecture"
    /\ LET st == AddAll([issues |-> issues, stats |-> stats], ArchitectureIssues(files))
       IN  issues' = st.issues /\ stats' = st.stats
    /\ pc' = After("architecture")
    /\ UNCHANGED <<disk, config, cache, todo, files, functions, kb, extracted,
                   prevIssues, sameInput, runs, edits, stored, unreadable, scores,
                   order, htmlScores>>

-----------------------------------------------------------------------------
(* generate_health_report: the health score                                 *)

\* what a CRITICAL and a HIGH issue cost, and the floors of the score
CriticalCost == 20
HighCost == 5
FullScore == 100
HighFloor == 50
OtherFloor == 75

Max(a, b) == IF a >= b THEN a ELSE b

\* health_score with the issues counted in the other branches only
health_score_uncounted(st) ==
    LET total_issues == Len(st.issues)
        critical == st.stats.severity["CRITICAL"]
        high == st.stats.severity["HIGH"]
    IN  IF critical > 0
        THEN Max(0, FullScore - critical * CriticalCost - high * HighCost)
        ELSE IF high > 0
             THEN Max(HighFloor, FullScore - high * HighCost - total_issues)
             ELSE IF total_issues > 0 THEN Max(OtherFloor, FullScore - total_issues)
                  ELSE FullScore

\* health_score, from self.stats['issues_by_severity'] and len(self.issues)
health_score(st) ==
    LET total_issues == Len(st.issues)
        critical == st.stats.severity["CRITICAL"]
        high == st.stats.severity["HIGH"]
    IN  IF critical > 0
        THEN Max(0, FullScore - critical * CriticalCost - high * HighCost - total_issues)
        ELSE IF high > 0
             THEN Max(HighFloor, FullScore - high * HighCost - total_issues)
             ELSE IF total_issues > 0 THEN Max(OtherFloor, FullScore - total_issues)
                  ELSE FullScore

\* health_status, the label printed beside the score
health_status(st) ==
    IF st.stats.severity["CRITICAL"] > 0 THEN "CRITICAL"
    ELSE IF st.stats.severity["HIGH"] > 0 THEN "WARNING"
         ELSE IF Len(st.issues) > 0 THEN "NEEDS ATTENTION" ELSE "HEALTHY"

\* the report is written for the issues of the finished analysis
generate_health_report ==
    /\ pc = "done"
    /\ scores' = Append(scores, health_score([issues |-> issues, stats |-> stats]))
    /\ pc' = "reported"
    /\ UNCHANGED <<disk, config, cache, todo, files, functions, kb, issues, stats,
                   extracted, prevIssues, sameInput, runs, edits, stored, unreadable,
                   order, htmlScores>>

\* the health_score of generate_html_report, a multiple of one half, as a
\* fraction: max(0, 100 - (critical * 20) - (high * 5) - len(self.issues) * 0.5)
html_health_score(st) ==
    LET critical == st.stats.severity["CRITICAL"]
        high == st.stats.severity["HIGH"]
        doubled == 2 * (FullScore - critical * CriticalCost - high * HighCost)
                   - Len(st.issues)
    IN  [num |-> Max(0, doubled), den |-> 2]

\* int(health_score), the number the page shows in the score circle
int(score) == score.num \div score.den

\* generate_all_reports writes the HTML report after the text report
generate_html_report ==
    /\ pc = "reported"
    /\ htmlScores' = Append(htmlScores,
                            html_health_score([issues |-> issues, stats |-> stats]))
    /\ pc' = "published"
    /\ UNCHANGED <<disk, config, cache, todo, files, functions, kb, issues, stats,
                   extracted, prevIssues, sameInput, runs, edits, stored, unreadable,
                   scores, order>>

-----------------------------------------------------------------------------
(* The corpus of the later passes                                           *)

\* eval(x);   eval(sanitizeHtml(x));   el.innerHTML = ''; eval(x);
EvalLine == L0(<<W("eval"), P("("), W("x"), P(")"), P(";")>>)
EvalSanitizedLine ==
    L0(<<W("eval"), P("("), W("sanitizeHtml"), P("("), W("x"), P(")"), P(")"), P(";")>>)
EvalAfterClearLine ==
    L0(<<W("el"), P("."), W("innerHTML"), P("="), P("''"), P(";"),
         W("eval"), P("("), W("x"), P(")"), P(";")>>)

\* el.innerHTML = x;   el.innerHTML = sanitizeHtml(x);   el.innerHTML = '';
AssignLine == L0(<<W("el"), P("."), W("innerHTML"), P("="), W("x"), P(";")>>)
AssignSanitizedLine ==
    L0(<<W("el"), P("."), W("innerHTML"), P("="), W("sanitizeHtml"), P("("), W("x"),
         P(")"), P(";")>>)
ClearLine == L0(<<W("el"), P("."), W("innerHTML"), P("="), P("''"), P(";")>>)

\* document.write(x);   var u = "http://...";
WriteLine == L0(<<W("document"), P("."), W("write"), P("("), W("x"), P(")"), P(";")>>)
UrlLine(url) == L0(<<W("var"), W("u"), P("="), S(url), P(";")>>)

\* function sanitizeHtml(s) { return s; }
SanitizerLine ==
    L0(<<W("function"), W("sanitizeHtml"), P("("), W("s"), P(")"), P("{"),
         W("return"), W("s"), P(";"), P("}")>>)

SecurityLines ==
    {EvalLine, EvalSanitizedLine, EvalAfterClearLine, AssignLine, AssignSanitizedLine,
     ClearLine, WriteLine, UrlLine("http://example.com"), UrlLine("http://localhost"),
     SanitizerLine, FillerLine}

\* the files of one and of two of these lines
SecurityContents ==
    {<<l>> : l \in SecurityLines} \cup {<<l, m>> : l \in SecurityLines, m \in SecurityLines}

\* the lengths of the runs of semicolons that put a call just inside and just
\* outside a window of the performance pass
PadLengths == {0, 185, 186, 192, 193, 492, 493}

\* a run of semicolons on a line of its own, no line for a run of length 0
PadLines(pad, indent) ==
    IF pad = 0 THEN <<>>
    ELSE <<[indent |-> indent, toks |-> <<Semis(pad)>>]>>

\* s.getRange(i);   var d = s.getDataRange();   s.appendRow(r);
CallLine(call) ==
    CASE call = "getRange" ->
            L1(<<W("s"), P("."), W("getRange"), P("("), W("i"), P(")"), P(";")>>)
      [] call = "getDataRange" ->
            L1(<<W("var"), W("d"), P("="), W("s"), P("."), W("getDataRange"), P("("),
                 P(")"), P(";")>>)
      [] call = "appendRow" ->
            L0(<<W("s"), P("."), W("appendRow"), P("("), W("r"), P(")"), P(";")>>)

LoopCalls == {"getRange", "getDataRange", "appendRow"}

\* the largest number of calls in a loop body
MaxCalls == 2

\* for (i) { ;;; call; ... }  with n calls on lines of their own
LoopFile(call, n, pad) ==
    <<L0(<<W("for"), P("("), W("i"), P(")"), P("{")>>)>>
    \o PadLines(pad, TRUE)
    \o [k \in 1..n |-> CallLine(call)]
    \o <<L0(<<P("}")>>)>>

\* for (i) { if (x) { y++; } call; }: the call follows an inner block
NestedLoopFile(call) ==
    <<L0(<<W("for"), P("("), W("i"), P(")"), P("{")>>),
      L1(<<W("if"), P("("), W("x"), P(")"), P("{"), W("y"), P("++"), P(";"), P("}")>>),
      CallLine(call),
      L0(<<P("}")>>)>>

\* for (i) { y++; }  ;;;  call;  -- the call follows the loop
AfterLoopFile(call, pad) ==
    <<L0(<<W("for"), P("("), W("i"), P(")"), P("{"), W("y"), P("++"), P(";"), P("}")>>)>>
    \o PadLines(pad, FALSE)
    \o <<CallLine(call)>>

\* for (i) y++;  function f() { call; }  -- a loop without braces, then a
\* function that makes the call
AfterBareLoopFile(call) ==
    <<L0(<<W("for"), P("("), W("i"), P(")"), W("y"), P("++"), P(";")>>),
      L0(<<W("function"), W("f"), P("("), P(")"), P("{")>>),
      CallLine(call),
      L0(<<P("}")>>)>>

\* var <word> = 1;  ;;;  call;  -- no loop anywhere
AfterWordFile(word, call, pad) ==
    <<L0(<<W("var"), W(word), P("="), W("1"), P(";")>>)>>
    \o PadLines(pad, FALSE)
    \o <<CallLine(call)>>

\* var m = "<text>";  call;
AfterLiteralFile(text, call) ==
    <<L0(<<W("var"), W("m"), P("="), S(text), P(";")>>), CallLine(call)>>

PerformanceContents ==
    {LoopFile(call, n, pad) : call \in LoopCalls, n \in 1..MaxCalls, pad \in PadLengths}
    \cup {NestedLoopFile(call) : call \in LoopCalls}
    \cup {AfterLoopFile(call, pad) : call \in LoopCalls, pad \in PadLengths}
    \cup {AfterBareLoopFile(call) : call \in LoopCalls}
    \cup {AfterWordFile(word, call, pad) :
             word \in {"format", "total"}, call \in LoopCalls, pad \in PadLengths}
    \cup {AfterLiteralFile(text, call) : text \in {"before", "after"}, call \in LoopCalls}
    \cup {<<CallLine(call)>> : call \in LoopCalls}

\* var sh = ss.getSheetByName("<name>");
SheetLine(name) ==
    L0(<<W("var"), W("sh"), P("="), W("ss"), P("."), W("getSheetByName"), P("("),
         S(name), P(")"), P(";")>>)

SheetNames == {"Prospects", "Archive", "Old Sheet"}

\* function f() {  if (x) {  y();  -- the braces never close; then n more lines
OpenFile(n) ==
    <<L0(<<W("function"), W("f"), P("("), P(")"), P("{")>>),
      L1(<<W("if"), P("("), W("x"), P(")"), P("{")>>),
      L1(<<W("y"), P("("), P(")"), P(";")>>)>>
    \o [k \in 1..n |-> FillerLine]

\* the largest number of lines after the open function
MaxTail == 2

\* a file with references the schema and the settings passes look at
ReferenceFile(name) ==
    <<SheetLine(name), TemplateLine(1, "CompanyNam"), LiteralLine("Wonn"),
      LiteralLine("Not Contacted")>>

AuditContents ==
    SecurityContents \cup PerformanceContents
    \cup {<<SheetLine(name)>> : name \in SheetNames}
    \cup {ReferenceFile(name) : name \in SheetNames}
    \cup {OpenFile(n) : n \in 0..MaxTail}

-----------------------------------------------------------------------------
(* What happens to the corpus and the cache directory between two runs     *)

\* the number of edits made to the corpus in a behaviour
MaxEdits == 1

\* a source file gets another content
EditFile ==
    /\ pc \in {"idle", "done"}
    /\ edits < MaxEdits
    /\ \E rel_path \in DOMAIN disk, content \in CacheContents :
          /\ content # disk[rel_path]
          /\ disk' = [disk EXCEPT ![rel_path] = content]
    /\ pc' = "idle"
    /\ edits' = edits + 1
    /\ UNCHANGED <<config, cache, todo, files, functions, kb, issues, stats,
                   extracted, prevIssues, sameInput, runs, stored, unreadable, scores,
                   order, htmlScores>>

\* the cache directory is emptied
ClearCache ==
    /\ pc \in {"idle", "done"}
    /\ DOMAIN cache # {}
    /\ cache' = <<>>
    /\ stored' = <<>>
    /\ UNCHANGED <<disk, config, pc, todo, files, functions, kb, issues, stats,
                   extracted, prevIssues, sameInput, runs, edits, unreadable, scores,
                   order, htmlScores>>

\* a cache file is damaged: pickle.load raises on it
CorruptCache ==
    /\ pc \in {"idle", "done"}
    /\ \E name \in DOMAIN cache :
          /\ cache[name].ok
          /\ cache' = [cache EXCEPT ![name].ok = FALSE]
          /\ stored' = [p \in {q \in DOMAIN stored : CacheFile(q) # name} |-> stored[p]]
    /\ UNCHANGED <<disk, config, pc, todo, files, functions, kb, issues, stats,
                   extracted, prevIssues, sameInput, runs, edits, unreadable, scores,
                   order, htmlScores>>

-----------------------------------------------------------------------------
(* Initial states and specifications                                        *)

NoSchema == [present |-> FALSE, columns |-> <<>>]

NoSettings == [present |-> FALSE, outcomes |-> {}, stages |-> {}, statuses |-> {}]

Schema(columns) == [present |-> TRUE, columns |-> columns]

\* no process has run yet: the corpus and the configuration sources are on
\* disk, the cache directory is empty
InitWith(d, c) ==
    /\ disk = d
    /\ config = c
    /\ cache = <<>>
    /\ pc = "idle"
    /\ todo = {}
    /\ files = <<>>
    /\ functions = <<>>
    /\ kb = NoKb
    /\ issues = <<>>
    /\ stats = NoStats
    /\ extracted = {}
    /\ prevIssues = <<>>
    /\ sameInput = FALSE
    /\ runs = 0
    /\ edits = 0
    /\ stored = <<>>
    /\ unreadable = {}
    /\ scores = <<>>
    /\ order = RunOrder
    /\ htmlScores = <<>>

\* the steps of run_analysis
Pipeline ==
    \/ load_configurations
    \/ ParseFile
    \/ analyze_dependencies
    \/ validate_schema_references
    \/ validate_settings_references
    \/ analyze_code_quality
    \/ analyze_security
    \/ analyze_performance
    \/ analyze_data_flow
    \/ validate_configuration
    \/ analyze_architecture

SchemaConfigs ==
    {NoSchema,
     Schema(<<[key |-> "Prospects", val |-> {"CompanyName"}]>>),
     Schema(<<[key |-> "Prospects", val |-> {"CompanyNameX"}],
              [key |-> "Outreach", val |-> {"CompanyNameY"}]>>),
     Schema(<<[key |-> "Prospects", val |-> {"PrimaryContactNumber", "Default"}],
              [key |-> "Outreach", val |-> {"Company"}]>>)}

SettingsConfigs ==
    {NoSettings}
    \cup {[present |-> TRUE, outcomes |-> o, stages |-> g, statuses |-> u] :
            o \in {{}, {"Won"}, {"Won", "Not Contacted"}},
            g \in {{}, {"Lead"}, {"Lead", "Not Contacted"}},
            u \in {{}, {"Not Contacted"}}}

\* the call graph: two files of the root directory, one run; the second file
\* may declare the called function twice, or be a page that declares it
InitGraph ==
    \/ \E subject \in GraphSubjects, other \in GraphOthers :
          InitWith([p \in {"A.js", "B.js"} |-> IF p = "A.js" THEN subject ELSE other],
                   [schema |-> NoSchema, settings |-> NoSettings])
    \/ InitWith([p \in {"A.js", "B.js"} |-> IF p = "A.js" THEN FileA ELSE TwiceB],
                [schema |-> NoSchema, settings |-> NoSettings])
    \/ InitWith([p \in {"A.js", "page.html"} |-> IF p = "A.js" THEN FileA ELSE PageB],
                [schema |-> NoSchema, settings |-> NoSettings])

NextGraph == StartRun(1) \/ Pipeline

SpecGraph == InitGraph /\ [][NextGraph]_vars

\* a literal one and two edits away from two columns, and a literal that is a
\* column in another letter case
NearMissVals == {"PrimaryContactNumbe", "Companyname"}

NearMissSchemas ==
    {Schema(<<[key |-> "Prospects",
               val |-> {"PrimaryContactNumber", "PrimaryContactNumbers"}]>>),
     Schema(<<[key |-> "Prospects", val |-> {"CompanyName"}]>>)}

\* the schema-reference pass: one file, with or without FuzzyMatchingUtils.js
InitSchema ==
    \/ \E content \in SchemaContents, schema \in SchemaConfigs :
          \/ InitWith([p \in {"A.js"} |-> content],
                      [schema |-> schema, settings |-> NoSettings])
          \/ \E fuzzy \in FuzzyFiles :
                /\ content \in {SchemaFile(1, val, 0, TRUE) : val \in SchemaVals}
                /\ InitWith([p \in {"A.js", "FuzzyMatchingUtils.js"} |->
                                IF p = "A.js" THEN content ELSE fuzzy],
                            [schema |-> schema, settings |-> NoSettings])
    \/ \E val \in NearMissVals, near \in NearMissSchemas :
          InitWith([p \in {"A.js"} |-> SchemaFile(1, val, 0, TRUE)],
                   [schema |-> near, settings |-> NoSettings])

NextSchema == StartRun(1) \/ Pipeline

SpecSchema == InitSchema /\ [][NextSchema]_vars

\* the settings pass: one file under one of three paths
InitSettings ==
    \E rel_path \in {"OUTREACH.gs", "ui/outreachForm.html", "A.js"},
       content \in SettingsContents, settings \in SettingsConfigs :
        InitWith([p \in {rel_path} |-> content],
                 [schema |-> NoSchema, settings |-> settings])

NextSettings == StartRun(1) \/ Pipeline

SpecSettings == InitSettings /\ [][NextSettings]_vars

\* schemas whose objects are none of those validate_configuration knows
RunConfigs ==
    {Schema(<<[key |-> "Leads", val |-> {"CompanyName"}]>>),
     Schema(<<[key |-> "Leads", val |-> {"CompanyNameX"}],
              [key |-> "Contacts", val |-> {"CompanyNameY"}]>>),
     Schema(<<[key |-> "Leads", val |-> {"PrimaryContactNumber", "Default"}],
              [key |-> "Contacts", val |-> {"Company"}]>>)}

\* runs, edits and the cache directory: two paths that differ in "/" and "_",
\* or a code file and a page whose script block declares a function
Init ==
    \/ \E c1, c2 \in CacheContents, schema \in RunConfigs :
          InitWith([p \in {"a_b.js", "a/b.js"} |-> IF p = "a_b.js" THEN c1 ELSE c2],
                   [schema |-> schema, settings |-> NoSettings])
    \/ InitWith([p \in {"A.js", "page.html"} |-> IF p = "A.js" THEN FileA ELSE PageB],
                [schema |-> NoSchema, settings |-> NoSettings])

Next ==
    \/ StartRun(MaxRuns)
    \/ Pipeline
    \/ generate_health_report
    \/ generate_html_report
    \/ EditFile
    \/ ClearCache
    \/ CorruptCache

Spec == Init /\ [][Next]_vars

\* any state in which no process has run yet
InitAny(d, c, u) ==
    /\ disk = d
    /\ config = c
    /\ unreadable = u
    /\ cache = <<>>
    /\ pc = "idle"
    /\ todo = {}
    /\ files = <<>>
    /\ functions = <<>>
    /\ kb = NoKb
    /\ issues = <<>>
    /\ stats = NoStats
    /\ extracted = {}
    /\ prevIssues = <<>>
    /\ sameInput = FALSE
    /\ runs = 0
    /\ edits = 0
    /\ stored = <<>>
    /\ scores = <<>>
    /\ order = RunOrder
    /\ htmlScores = <<>>

\* no schema source, a source without objects, a schema with every required
\* column of Prospects, and one that lacks a column of Prospects and of Accounts
AuditSchemas ==
    {NoSchema,
     Schema(<<>>),
     Schema(<<[key |-> "Prospects",
               val |-> {"Company ID", "Company Name", "Contact Status"}]>>),
     Schema(<<[key |-> "Prospects", val |-> {"Company ID", "Company Name"}],
              [key |-> "Accounts", val |-> {"Contact Name"}]>>)}

AuditSettings ==
    {NoSettings,
     [present |-> TRUE, outcomes |-> {}, stages |-> {}, statuses |-> {}],
     [present |-> TRUE, outcomes |-> {"Won"}, stages |-> {"Lead"},
      statuses |-> {"Not Contacted"}]}

\* one code file more than analyze_architecture reports
BarePaths == {"A.js", "B.js", "C.js", "D.js", "E.js", "F.js"}

\* the later passes, one run: one file without configuration sources; a file
\* of references under every configuration, with and without Config.js in the
\* root directory (Config.js is a schema source); a page; and the files of the
\* call graph, some of which cannot be read; and six files of one function
\* without error handling
InitAudit ==
    \/ \E content \in AuditContents :
          InitAny([p \in {"A.js"} |-> content],
                  [schema |-> NoSchema, settings |-> NoSettings], {})
    \/ \E name \in SheetNames, schema \in AuditSchemas, settings \in AuditSettings :
          \/ InitAny([p \in {"A.js"} |-> ReferenceFile(name)],
                     [schema |-> schema, settings |-> settings], {})
          \/ /\ schema.present
             /\ InitAny([p \in {"A.js", "Config.js"} |->
                            IF p = "A.js" THEN ReferenceFile(name) ELSE <<FillerLine>>],
                        [schema |-> schema, settings |-> settings], {})
    \/ \E content \in {<<EvalLine>>, <<AssignLine>>, <<FillerLine, AssignLine>>} :
          InitAny([p \in {"page.html"} |-> content],
                  [schema |-> NoSchema, settings |-> NoSettings], {})
    \/ \E u \in SUBSET {"A.js", "B.js"}, settings \in AuditSettings :
          InitAny([p \in {"A.js", "B.js"} |-> IF p = "A.js" THEN FileA ELSE FileB],
                  [schema |-> NoSchema, settings |-> settings], u)
    \/ InitAny([p \in BarePaths |-> FileB],
               [schema |-> NoSchema, settings |-> NoSettings], {})

NextAudit == StartRun(1) \/ Pipeline

SpecAudit == InitAudit /\ [][NextAudit]_vars

\* the orders of the eight passes a caller is given: that of run_analysis, its
\* reverse, and those that exchange two neighbouring passes of it
PassOrders ==
    {RunOrder, [i \in 1..Len(RunOrder) |-> RunOrder[Len(RunOrder) + 1 - i]]}
    \cup {[i \in 1..Len(RunOrder) |->
              IF i = k THEN RunOrder[k + 1]
              ELSE IF i = k + 1 THEN RunOrder[k] ELSE RunOrder[i]] :
          k \in 1..(Len(RunOrder) - 1)}

\* between two runs the caller is given another order of the passes
Reorder ==
    /\ pc = "done"
    /\ runs < MaxRuns
    /\ order' \in PassOrders \ {order}
    /\ UNCHANGED <<disk, config, cache, pc, todo, files, functions, kb, issues, stats,
                   extracted, prevIssues, sameInput, runs, edits, stored, unreadable,
                   scores, htmlScores>>

\* a file every pass but one finds something in, a file of references, and a
\* caller of b
OrderSubjects ==
    {Decl("function", "computeTotals", Ifs(10)) \o <<EvalLine>> \o ReferenceFile("Archive"),
     ReferenceFile("Archive"),
     FileA}

OrderOthers == {FileB, NestedLoopFile("appendRow")}

\* a schema that lacks one required column of Prospects and holds a column one
\* edit away from a literal of the corpus
OrderSchemas ==
    {NoSchema,
     Schema(<<[key |-> "Prospects",
               val |-> {"Company ID", "Company Name", "CompanyName"}]>>)}

\* a FuzzyMatchingUtils.js with the four required functions, the first of them
\* with error handling
FullFuzzy ==
    Decl("function", "fuzzyMatchCompany",
         <<L1(<<W("try"), P("{"), W("x"), P("("), P(")"), P(";"), P("}"),
                W("catch"), P("("), W("e"), P(")"), P("{"), P("}")>>)>>)
    \o Decl("function", "calculateStringSimilarity", <<>>)
    \o Decl("function", "levenshteinDistance", <<>>)
    \o Decl("function", "normalizeCompanyName", <<>>)

\* the passes in several orders: two files, two runs, nothing edited in between;
\* the second family is a corpus no pass finds anything in, with Config.js as
\* the schema source and with a complete or an incomplete FuzzyMatchingUtils.js
InitOrder ==
    \/ \E subject \in OrderSubjects, other \in OrderOthers, schema \in OrderSchemas,
          settings \in AuditSettings \ {NoSettings} :
          InitAny([p \in {"OUTREACH.gs", "B.js"} |->
                      IF p = "OUTREACH.gs" THEN subject ELSE other],
                  [schema |-> schema, settings |-> settings], {})
    \/ \E fuzzy \in {FullFuzzy} \cup FuzzyFiles :
          InitAny([p \in {"FuzzyMatchingUtils.js", "Config.js"} |->
                      IF p = "Config.js" THEN <<FillerLine>> ELSE fuzzy],
                  [schema |-> Schema(<<[key |-> "Prospects",
                                        val |-> {"Company ID", "Company Name",
                                                 "Contact Status"}]>>),
                   settings |-> [present |-> TRUE, outcomes |-> {"Won"},
                                 stages |-> {"Lead"},
                                 statuses |-> {"Not Contacted"}]], {})

NextOrder == StartRun(MaxRuns) \/ Pipeline \/ Reorder \/ generate_health_report

SpecOrder == InitOrder /\ [][NextOrder]_vars

\* the largest numbers of issues of a list the health score is computed for
MaxCritical == 2
MaxHigh == 3
MaxMedium == 85
MaxLow == 1

\* the number of reports in a behaviour
MaxReports == 2

Reported(severity) == Issue("A.js", 1, severity, "Code Quality", "reported", "", "", 0)

\* the list that self._add_issue builds from these severities, with its counters
Report(severities) ==
    [issues |-> [k \in 1..Len(severities) |-> Reported(severities[k])],
     stats |-> [severity |-> [x \in Severities |->
                                 Cardinality({k \in 1..Len(severities) :
                                                 severities[k] = x})],
                category |-> [x \in Categories |->
                                 IF x = "Code Quality" THEN Len(severities) ELSE 0]]]

\* an analysis has finished with any list of issues
InitHealth ==
    \E c \in 0..MaxCritical, h \in 0..MaxHigh, m \in 0..MaxMedium, l \in 0..MaxLow :
        LET st == Report([k \in 1..c |-> "CRITICAL"] \o [k \in 1..h |-> "HIGH"]
                         \o [k \in 1..m |-> "MEDIUM"] \o [k \in 1..l |-> "LOW"]
                         \o [k \in 1..l |-> "INFO"])
        IN  /\ issues = st.issues
            /\ stats = st.stats
            /\ pc = "done"
            /\ runs = 1
            /\ disk = [p \in {"A.js"} |-> <<FillerLine>>]
            /\ config = [schema |-> NoSchema, settings |-> NoSettings]
            /\ unreadable = {}
            /\ cache = <<>>
            /\ todo = {}
            /\ files = <<>>
            /\ functions = <<>>
            /\ kb = NoKb
            /\ extracted = {}
            /\ prevIssues = <<>>
            /\ sameInput = FALSE
            /\ edits = 0
            /\ stored = <<>>
            /\ scores = <<>>
            /\ order = RunOrder
            /\ htmlScores = <<>>

\* INFO < LOW < MEDIUM < HIGH < CRITICAL
Rank(severity) ==
    CASE severity = "INFO" -> 1
      [] severity = "LOW" -> 2
      [] severity = "MEDIUM" -> 3
      [] severity = "HIGH" -> 4
      [] severity = "CRITICAL" -> 5

\* the analysis that is reported next has one more issue
AnotherIssue ==
    /\ pc = "reported"
    /\ Len(scores) < MaxReports
    /\ \E severity \in Severities :
          LET st == add_issue([issues |-> issues, stats |-> stats], Reported(severity))
          IN  issues' = st.issues /\ stats' = st.stats
    /\ prevIssues' = issues
    /\ pc' = "done"
    /\ UNCHANGED <<disk, config, cache, todo, files, functions, kb, extracted,
                   sameInput, runs, edits, stored, unreadable, scores,
                   order, htmlScores>>

\* the analysis that is reported next has one issue (the first of its
\* severity) at a higher severity
HigherSeverity ==
    /\ pc = "reported"
    /\ Len(scores) < MaxReports
    /\ \E k \in 1..Len(issues), severity \in Severities :
          /\ \A j \in 1..(k - 1) : issues[j].severity # issues[k].severity
          /\ Rank(severity) > Rank(issues[k].severity)
          /\ issues' = [issues EXCEPT ![k].severity = severity]
          /\ stats' = [stats EXCEPT
                          !.severity[issues[k].severity] = @ - 1,
                          !.severity[severity] = @ + 1]
    /\ prevIssues' = issues
    /\ pc' = "done"
    /\ UNCHANGED <<disk, config, cache, todo, files, functions, kb, extracted,
                   sameInput, runs, edits, stored, unreadable, scores,
                   order, htmlScores>>

NextHealth ==
    generate_health_report \/ generate_html_report \/ AnotherIssue \/ HigherSeverity

SpecHealth == InitHealth /\ [][NextHealth]_vars

-----------------------------------------------------------------------------
(* Properties of the call graph (SpecGraph)                                 *)

\* the number of entries of a sequence that satisfy a test
CountOf(seq, Test(_)) == Cardinality({k \in 1..Len(seq) : Test(seq[k])})

\* the called_by set of the function registered as rel_path::name
CalledBy(rel_path, name) ==
    LET fs == DictGet(files, rel_path).functions
    IN  UNION {fs[n].called_by : n \in {m \in 1..Len(fs) : fs[m].name = name}}

\* analyze_dependencies has run on the corpus A.js, B.js
GraphBuilt == pc = "schema" /\ DOMAIN disk = {"A.js", "B.js"}

\* C1: for the corpus A.js = function a(){ b(); }, B.js = function b(){},
\* after parse_all_files and analyze_dependencies the called_by set of b is
\* exactly {A.js::a} and the called_by set of a is empty.
C1_CalledBy ==
    (GraphBuilt /\ disk["A.js"] = FileA /\ disk["B.js"] = FileB)
    => /\ CalledBy("B.js", "b") = {<<"A.js", "a">>}
       /\ CalledBy("A.js", "a") = {}

\* the issues that report name as orphaned: Low severity, Maintainability
OrphanReports(name) ==
    CountOf(issues, LAMBDA x : /\ x.msg = "orphaned" /\ x.a = name
                               /\ x.severity = "LOW"
                               /\ x.category = "Maintainability")

\* C2: computeTotals, declared under any of the six shapes, with no call site
\* in the corpus (the body holds only if statements, B.js is function b(){}),
\* is reported as one Low Maintainability issue when its complexity score
\* exceeds 10, and is not reported when the score is 10 or less.
C2_Reported ==
    \A shape \in ShapeSet, n \in IfCounts :
        (GraphBuilt /\ disk["A.js"] = Decl(shape, "computeTotals", Ifs(n))
                    /\ disk["B.js"] = FileB)
        => LET fs == DictGet(files, "A.js").functions
           IN  \A m \in 1..Len(fs) :
                   fs[m].name = "computeTotals"
                   => OrphanReports("computeTotals")
                        = IF fs[m].complexity_score > 10 THEN 1 ELSE 0

\* the names of the corpus that stand for an indirectly invoked role: lifecycle
\* hooks, a display entry point, a name that starts with "_"
IndirectRoles == {"onOpen", "doGet", "showSidebar", "_private"}

\* C3: a function whose name matches an entry of the allow-list of indirectly
\* invoked roles is never reported as orphaned, whatever its complexity score
\* and however few call sites it has.
C3_NeverOrphaned ==
    \A k \in 1..Len(issues) :
        issues[k].msg = "orphaned" => issues[k].a \notin IndirectRoles

-----------------------------------------------------------------------------
(* Properties of the cache across runs (Spec)                               *)

\* C4: in every run, a file is re-extracted exactly when it has no cache entry
\* of its own or its content hash differs from the hash stored in that entry,
\* and a file that is not re-extracted gets the record that was stored when
\* its content was last extracted.
C4_Reextract ==
    [][\A p \in DOMAIN disk :
          (pc = "parse" /\ p \in todo /\ p \notin todo')
          => /\ p \in extracted'
                <=> (p \notin DOMAIN stored \/ stored[p].hash # FileHash(disk[p]))
             /\ (p \notin extracted' /\ p \in DOMAIN stored)
                => DictGet(files', p) = stored[p].analysis]_vars

\* C5: the cache entry a file wrote is still the one the cache holds for it,
\* and the record of every file carries the file's own path, as does every
\* function of the record.
C5_Independent ==
    /\ \A p \in DOMAIN stored :
          /\ CacheFile(p) \in DOMAIN cache
          /\ cache[CacheFile(p)].hash = stored[p].hash
          /\ cache[CacheFile(p)].analysis = stored[p].analysis
    /\ \A i \in 1..Len(files) :
          /\ files[i].val.path = files[i].key
          /\ \A n \in 1..Len(files[i].val.functions) :
                files[i].val.functions[n].file = files[i].key

\* C6: a run that follows a completed run, with no file and no configuration
\* changed in between, ends with the same multiset of issues as that run,
\* whether or not the cache served it and whatever the order in which the set
\* of schema columns was iterated.
C6_SameIssues ==
    (pc = "done" /\ sameInput /\ runs >= 2)
    => \A k \in 1..Len(issues), j \in 1..Len(prevIssues) :
          /\ CountOf(issues, LAMBDA x : x = issues[k])
               = CountOf(prevIssues, LAMBDA x : x = issues[k])
          /\ CountOf(issues, LAMBDA x : x = prevIssues[j])
               = CountOf(prevIssues, LAMBDA x : x = prevIssues[j])

-----------------------------------------------------------------------------
(* Properties of the schema-reference pass (SpecSchema)                     *)

\* validate_schema_references has run
SchemaChecked == pc \in {"settings", "done"}

\* the Medium Schema issues raised for the literal val on a line of a file
TypoReports(rel_path, line_num, val) ==
    CountOf(issues, LAMBDA x : /\ x.msg = "schema typo" /\ x.file = rel_path
                               /\ x.line = line_num /\ x.a = val
                               /\ x.severity = "MEDIUM" /\ x.category = "Schema")

\* how often the record of a file holds the literal val on a line
Occurrences(lits, line_num, val) == CountOf(lits, LAMBDA x : x = <<line_num, val>>)

\* some known column is more than 0.85 and less than 1.0 similar to val
NearColumn(val, cols) ==
    \E col \in cols :
        LET sim == calculate_similarity(Chars(val), Chars(col))
        IN  85 * sim.den < 100 * sim.num /\ sim.num < sim.den

\* C7: a literal in column context, at least 3 long and not on the stop-list,
\* gets exactly one Medium Schema issue if and only if it is not a schema
\* column and some column is more than 0.85 and less than 1.0 similar to it;
\* a literal that is a column, or that no column is more than 0.85 similar
\* to, gets none.
C7_FuzzyBand ==
    SchemaChecked
    => LET cols == AllColumns(kb.schema_columns)
       IN  \A i \in 1..Len(files) :
             LET lits == files[i].val.string_literals
             IN  \A k \in 1..Len(lits) :
                   LET line_num == lits[k][1]
                       val      == lits[k][2]
                       reported == TypoReports(files[i].key, line_num, val)
                   IN  /\ ( /\ Len(Chars(val)) >= 3
                            /\ Lower(Chars(val)) \notin {Chars(fp) : fp \in StopList}
                            /\ is_column_context(disk[files[i].key], line_num, val) )
                          => reported = IF val \notin cols /\ NearColumn(val, cols)
                                        THEN Occurrences(lits, line_num, val)
                                        ELSE 0
                       /\ val \in cols => reported = 0
                       /\ ~NearColumn(val, cols) => reported = 0

\* a literal one edit away from the column CompanyName, in column context, has
\* been reported
C7_Witness ==
    /\ SchemaChecked
    /\ \E k \in 1..Len(issues) :
          /\ issues[k].msg = "schema typo"
          /\ issues[k].a = "CompanyNam" /\ issues[k].b = "CompanyName"
          /\ is_column_context(disk[issues[k].file], issues[k].line, "CompanyNam")

\* C8: the schema-reference pass raises no schema-typo issue for a literal
\* that does not lie in column context, however similar it is to a column.
C8_ContextGate ==
    SchemaChecked
    => \A k \in 1..Len(issues) :
          issues[k].msg = "schema typo"
          => is_column_context(disk[issues[k].file], issues[k].line, issues[k].a)

\* a literal one edit away from a column lies four lines from the only
\* column-reference line, outside its own window, and has not been reported
C8_Witness ==
    /\ SchemaChecked
    /\ DOMAIN disk = {"A.js"}
    /\ disk["A.js"] = SchemaFile(1, "CompanyNam", MaxGap, TRUE)
    /\ "CompanyName" \in AllColumns(kb.schema_columns)
    /\ ~is_column_context(disk["A.js"], 1, "CompanyNam")
    /\ TypoReports("A.js", 1, "CompanyNam") = 0
    /\ TypoReports("A.js", MaxGap + 2, "CompanyNam") = 1

-----------------------------------------------------------------------------
(* Properties of the settings pass (SpecSettings)                           *)

\* validate_settings_references has run
SettingsChecked == pc = "done"

\* the record of some file holds the literal val
HasLiteral(val) ==
    \E i \in 1..Len(files) :
        \E k \in 1..Len(files[i].val.string_literals) :
            files[i].val.string_literals[k][2] = val

\* C9: a literal is taken for an outcome (a stage) only if it is a member of
\* the valid outcomes (stages), so no literal is reported as an invalid
\* outcome or stage: neither a member such as "Won" nor a near miss such as
\* "Wonn".
C9_StrictMembership ==
    SettingsChecked
    => \A k \in 1..Len(issues) :
          issues[k].msg \notin {"invalid outcome", "invalid stage"}

\* the pass has run over the near miss "Wonn" with "Won" a valid outcome
C9_Witness ==
    /\ SettingsChecked
    /\ "Won" \in kb.valid_outcomes
    /\ HasLiteral("Wonn")

\* the High Settings issues raised for the banned status on a line of a file
BannedReports(rel_path, line_num) ==
    CountOf(issues, LAMBDA x : /\ x.msg = "banned status" /\ x.file = rel_path
                               /\ x.line = line_num
                               /\ x.severity = "HIGH" /\ x.category = "Settings")

\* C10: every recorded occurrence of "Not Contacted" in a file whose path
\* holds "outreach" in any letter case gets one High Settings issue, whether
\* or not the literal is a valid outcome, stage or status.
C10_BannedStatus ==
    SettingsChecked
    => \A i \in 1..Len(files) :
          Contains(Lower(Chars(files[i].key)), Chars("outreach"))
          => LET lits == files[i].val.string_literals
             IN  \A k \in 1..Len(lits) :
                    lits[k][2] = "Not Contacted"
                    => BannedReports(files[i].key, lits[k][1])
                         = Occurrences(lits, lits[k][1], "Not Contacted")

\* the banned status, a valid outcome here, has been reported in OUTREACH.gs
C10_Witness ==
    /\ SettingsChecked
    /\ DOMAIN disk = {"OUTREACH.gs"}
    /\ "Not Contacted" \in kb.valid_outcomes
    /\ HasLiteral("Not Contacted")
    /\ \E k \in 1..Len(issues) :
          issues[k].msg = "banned status" /\ issues[k].file = "OUTREACH.gs"


-----------------------------------------------------------------------------
(* Properties of the performance pass (SpecAudit)                           *)

\* analyze_performance has run
PerformanceChecked == pc \in {"dataflow", "configuration", "architecture", "done"}

\* the position that closes the bracket opened at position open, 0 if none
Closing(f, open, left, right) ==
    LET depth(p) == Cardinality({q \in open..p : f[q].t = P(left)})
                    - Cardinality({q \in open..p : f[q].t = P(right)})
        ends == {p \in open..Len(f) : depth(p) = 0}
    IN  IF ends = {} THEN 0 ELSE CHOOSE p \in ends : \A q \in ends : p <= q

\* the positions of the body of the loop statement whose keyword is at
\* position i: the block in braces, or the one statement up to its ";"
LoopBody(f, i) ==
    LET close == IF At(f, i + 1) = P("(") THEN Closing(f, i + 1, "(", ")") ELSE 0
        semis == {p \in (close + 1)..Len(f) : f[p].t = P(";")}
    IN  IF f[i].t \notin {W("for"), W("while")} \/ close = 0 THEN {}
        ELSE IF At(f, close + 1) = P("{")
             THEN (close + 1)..Closing(f, close + 1, "{", "}")
             ELSE IF semis = {} THEN (close + 1)..Len(f)
                  ELSE (close + 1)..(CHOOSE p \in semis : \A q \in semis : p <= q)

\* the positions at which the file calls the method
CallsOf(f, method) == {g \in 1..Len(f) : f[g].t = W(method) /\ At(f, g + 1) = P("(")}

\* the calls of the method that lie in the body of a loop
LoopedCalls(f, method) ==
    {g \in CallsOf(f, method) : \E i \in 1..Len(f) : g \in LoopBody(f, i)}

\* the number of issues of one kind reported for a file
Reports(rel_path, msg) ==
    CountOf(issues, LAMBDA x : x.file = rel_path /\ x.msg = msg)

\* the kind of issue that stands for a call in a loop
LoopReport(method) ==
    CASE method = "getRange" -> "getRange in loop"
      [] method = "getDataRange" -> "getDataRange in loop"
      [] method = "appendRow" -> "appendRow"

\* C11: the performance pass reports no getRange / getDataRange call for a
\* file in which no such call lies in the body of a loop, also when the call
\* follows a loop statement later in the file.
C11_OutsideLoopUnflagged ==
    PerformanceChecked
    => \A rel_path \in DOMAIN disk, method \in {"getRange", "getDataRange"} :
          LoopedCalls(Flat(disk[rel_path]), method) = {}
          => Reports(rel_path, LoopReport(method)) = 0

\* the calls of the method in the braces of a for loop, at most window
\* characters after the "{"
WindowedCalls(content, f, method, window) ==
    {g \in CallsOf(f, method) :
        \E i \in 1..Len(f) :
            /\ f[i].t = W("for") /\ g \in LoopBody(f, i)
            /\ f[CHOOSE p \in LoopBody(f, i) : \A q \in LoopBody(f, i) : p <= q].t = P("{")
            /\ StartOf(content, f, g)
                 - EndOf(content, f, CHOOSE p \in LoopBody(f, i) :
                                        \A q \in LoopBody(f, i) : p <= q) <= window}

\* C12: a file whose for-loop bodies hold n getRange (getDataRange) calls
\* within the scan window, n > 0, gets n issues of that kind: one for each call.
C12_OneIssuePerCall ==
    PerformanceChecked
    => \A rel_path \in DOMAIN disk :
          LET content == disk[rel_path]
              ranges == WindowedCalls(content, Flat(content), "getRange", RangeWindow)
              datas == WindowedCalls(content, Flat(content), "getDataRange",
                                     DataRangeWindow)
          IN  /\ ranges # {}
                 => Reports(rel_path, "getRange in loop") = Cardinality(ranges)
              /\ datas # {}
                 => Reports(rel_path, "getDataRange in loop") = Cardinality(datas)

\* C13: the performance pass reports no appendRow call for a file in which no
\* appendRow call lies in the body of a for or while loop, whatever text
\* comes before the call.
C13_SingleAppendUnflagged ==
    PerformanceChecked
    => \A rel_path \in DOMAIN disk :
          LoopedCalls(Flat(disk[rel_path]), "appendRow") = {}
          => Reports(rel_path, "appendRow") = 0


-----------------------------------------------------------------------------
(* Properties of the security pass (SpecAudit)                              *)

\* analyze_security has run
SecurityChecked ==
    pc \in {"performance", "dataflow", "configuration", "architecture", "done"}

\* the number of issues of one kind reported for a line of a file
LineReports(rel_path, line, severity, msg) ==
    CountOf(issues, LAMBDA x : /\ x.file = rel_path /\ x.line = line
                               /\ x.severity = severity /\ x.category = "Security"
                               /\ x.msg = msg)

\* the calls of eval on a line
EvalCalls(f, ln) == {i \in OnLine(f, ln) : f[i].t = W("eval") /\ At(f, i + 1) = P("(")}

\* C14: every eval( call of a scanned file is reported as a CRITICAL Security
\* issue on its line, whatever else the line holds.
C14_EvalReported ==
    SecurityChecked
    => \A n \in 1..Len(files) :
          LET rel_path == files[n].key
              f == Flat(disk[rel_path])
          IN  \A ln \in 1..Len(disk[rel_path]) :
                 LineReports(rel_path, ln, "CRITICAL", "eval")
                     = Cardinality(EvalCalls(f, ln))

\* line ln assigns something other than the empty literal to innerHTML
AssignsInnerHtml(f, ln) ==
    \E i \in OnLine(f, ln) :
        /\ f[i].t = P(".") /\ At(f, i + 1) = W("innerHTML") /\ At(f, i + 2) = P("=")
        /\ i + 3 <= Len(f) /\ f[i + 3].ln = ln /\ f[i + 3].t # P("''")

\* line ln calls sanitizeHtml
CallsSanitizer(f, ln) ==
    \E i \in OnLine(f, ln) : f[i].t = W("sanitizeHtml") /\ At(f, i + 1) = P("(")

\* the file declares function sanitizeHtml
DeclaresSanitizer(f) ==
    \E i \in 1..Len(f) : f[i].t = W("function") /\ At(f, i + 1) = W("sanitizeHtml")

\* C15: a line that assigns a non-empty value to innerHTML gets one MEDIUM
\* Security issue, wherever it stands in the file, unless it calls the
\* sanitizer or the file declares one; then it gets none.
C15_InnerHtmlReported ==
    SecurityChecked
    => \A n \in 1..Len(files) :
          LET rel_path == files[n].key
              f == Flat(disk[rel_path])
          IN  \A ln \in 1..Len(disk[rel_path]) :
                 AssignsInnerHtml(f, ln)
                 => LineReports(rel_path, ln, "MEDIUM", "innerHTML")
                      = IF CallsSanitizer(f, ln) \/ DeclaresSanitizer(f) THEN 0 ELSE 1

-----------------------------------------------------------------------------
(* Properties of the handling of missing input (SpecAudit)                  *)

\* parse_all_files has returned
Parsed == pc \notin {"idle", "config", "parse", "crashed"}

\* C16: a selected file that cannot be read gets no record and no functions,
\* no exception ends the run, and every other selected file is parsed.
C16_UnreadableSkipped ==
    /\ pc # "crashed"
    /\ \A rel_path \in unreadable :
          /\ ~DictHas(files, rel_path)
          /\ \A k \in 1..Len(functions) : functions[k].key[1] # rel_path
    /\ Parsed => \A rel_path \in DOMAIN disk :
                    (Selected(rel_path) /\ rel_path \notin unreadable)
                    => DictHas(files, rel_path)

\* the Architecture issues that report the schema source as missing
SchemaSourceReports ==
    CountOf(issues, LAMBDA x : /\ x.category = "Architecture"
                               /\ x.msg \in {"schema source not found",
                                             "Config.js not found"})

SettingsSourceReports ==
    CountOf(issues, LAMBDA x : /\ x.category = "Architecture"
                               /\ x.msg = "settings source not found")

\* C17: in a completed run with a configuration source absent, the sets of
\* that source are empty and exactly one Architecture issue reports the source
\* as missing.
C17_OneIssuePerMissingSource ==
    pc = "done"
    => /\ ~config.schema.present
          => kb.schema_columns = <<>> /\ SchemaSourceReports = 1
       /\ ~config.settings.present
          => /\ kb.valid_outcomes = {} /\ kb.valid_stages = {}
             /\ SettingsSourceReports = 1

\* the kinds of issue that declare a value of the source code invalid,
\* mistyped or undocumented
ReferenceReports ==
    {"schema typo", "invalid outcome", "invalid stage", "undocumented sheet"}

\* C18: with no schema objects, no outcomes and no stages known, the run
\* reports no Schema or Settings issue about a value referenced in the code.
C18_EmptySetsSkipped ==
    (pc = "done" /\ kb = NoKb)
    => \A k \in 1..Len(issues) :
          issues[k].category \in {"Schema", "Settings"}
          => issues[k].msg \notin ReferenceReports

\* counting from line line_num, the braces never return to depth zero
NeverCloses(content, line_num) ==
    LET f == Flat(content)
        br == {p \in 1..Len(f) : f[p].ln >= line_num /\ f[p].t \in {P("{"), P("}")}}
    IN  \A p \in br :
           Cardinality({q \in br : q <= p /\ f[q].t = P("{")})
               # Cardinality({q \in br : q <= p /\ f[q].t = P("}")})

\* C19: a function whose braces never close is recorded, and its line_end is
\* the number of lines of the file.
C19_OpenFunctionSpansFile ==
    Parsed
    => \A n \in 1..Len(files) :
          LET content == disk[files[n].key]
              funcs == files[n].val.functions
          IN  \A k \in 1..Len(funcs) :
                 (funcs[k].file = files[n].key
                  /\ NeverCloses(content, funcs[k].line_start))
                 => funcs[k].line_end = LineCount(content)

-----------------------------------------------------------------------------
(* Properties of the health score (SpecHealth)                              *)

\* C20: the score reported after one more issue was added, or after an issue
\* was raised to a higher severity, is never higher than the score reported
\* before.
C20_Monotonic ==
    \A k \in 2..Len(scores) : scores[k] <= scores[k - 1]

\* the score fell from above a floor to below it when an issue became CRITICAL
C20_Witness ==
    /\ Len(scores) = 2
    /\ scores[2] < HighFloor /\ scores[1] >= HighFloor
    /\ Len(issues) = Len(prevIssues)
    /\ stats.severity["CRITICAL"] = 1

\* the number of issues of the list that have the severity
Listed(severity) == CountOf(issues, LAMBDA x : x.severity = severity)

\* C21: the score of the text report and the score of the HTML report, derived
\* from the same issue list, lie in 0..100, are at least 75 when the list has
\* no CRITICAL and no HIGH issue, at least 50 when it has HIGH but no CRITICAL
\* issues, and the two reports show the same score.
C21_OneBoundedScore ==
    /\ pc \in {"reported", "published"}
       => LET s == scores[Len(scores)]
          IN  /\ s \in 0..FullScore
              /\ (Listed("CRITICAL") = 0 /\ Listed("HIGH") = 0) => s >= OtherFloor
              /\ (Listed("CRITICAL") = 0 /\ Listed("HIGH") > 0) => s >= HighFloor
    /\ pc = "published"
       => LET h == htmlScores[Len(htmlScores)]
          IN  /\ h.num >= 0 /\ h.num <= FullScore * h.den
              /\ (Listed("CRITICAL") = 0 /\ Listed("HIGH") = 0)
                 => h.num >= OtherFloor * h.den
              /\ (Listed("CRITICAL") = 0 /\ Listed("HIGH") > 0)
                 => h.num >= HighFloor * h.den
              /\ int(h) = scores[Len(scores)]

-----------------------------------------------------------------------------
(* Properties of run_analysis as a whole                                    *)

\* the stage of the pipeline a position belongs to
Stage(p) ==
    CASE p = "idle" -> 0
      [] p = "config" -> 1
      [] p \in {"parse", "crashed"} -> 2
      [] p = "deps" -> 3
      [] p \in {RunOrder[k] : k \in 1..Len(RunOrder)} -> 4
      [] p = "done" -> 5
      [] p = "reported" -> 6
      [] p = "published" -> 7

\* a step keeps the order of the stages, and from call-graph resolution on it
\* extracts and records no file
StageStep ==
    /\ (pc' # pc)
       => (\/ pc' = "config" /\ runs' = runs + 1
           \/ pc' = "idle" /\ disk' # disk
           \/ Stage(pc') > Stage(pc)
           \/ Stage(pc') = 4 /\ Stage(pc) = 4)
    /\ (Stage(pc) >= 3 /\ runs' = runs)
       => (extracted' = extracted /\ DictKeys(files') = DictKeys(files))

\* C22: in every run the stages follow one another in the order configuration
\* load, extraction, call-graph resolution, validation passes, reporting; the
\* call graph and the passes start only when every selected file has its
\* record, extracted or loaded from the cache, and no file is extracted or
\* recorded after that.
C22_StagesInOrder ==
    /\ [](Stage(pc) >= 3
           => /\ todo = {}
              /\ \A p \in DOMAIN disk : Selected(p) => DictHas(files, p))
    /\ [][StageStep]_vars

\* a second run that took every record from the cache has been reported
C22_Witness ==
    /\ pc = "published"
    /\ runs = 2
    /\ extracted = {}
    /\ Len(files) = 2

\* C23: after call-graph resolution, every function record of every file whose
\* name is a call target of a function has that function's full name in its
\* called_by; so have two records of one name in one file, and the records of
\* a page.
C23_AllDefinitionsResolved ==
    Stage(pc) >= 4
    => \A n \in 1..Len(files), m \in 1..Len(files) :
          \A k \in 1..Len(files[n].val.functions),
             j \in 1..Len(files[m].val.functions) :
              LET record == files[n].val.functions[k]
                  caller == files[m].val.functions[j]
              IN  record.name \in caller.calls
                  => <<files[m].key, caller.name>> \in record.called_by

-----------------------------------------------------------------------------
(* Properties of the similarity of validate_schema_references (SpecSchema)  *)

\* a is strictly less than b, for two fractions num/den
Less(a, b) == a.num * b.den < b.num * a.den

\* C24: when the schema-reference pass flags a literal, the column named in
\* the issue is the closest match: no other known column has a strictly higher
\* similarity to the literal than the column reported.
C24_ClosestColumn ==
    SchemaChecked
    => \A k \in 1..Len(issues) :
          issues[k].msg = "schema typo"
          => \A col \in AllColumns(kb.schema_columns) :
                ~Less(calculate_similarity(Chars(issues[k].a), Chars(issues[k].b)),
                      calculate_similarity(Chars(issues[k].a), Chars(col)))

\* C25: the similarity of the schema-reference pass is case-insensitive: the
\* similarity of a literal and a column is unchanged when both are put in lower
\* case, and a literal that differs from a known column only in letter case is
\* not flagged as a typo.
C25_CaseInsensitive ==
    SchemaChecked
    => \A i \in 1..Len(files) :
          LET lits == files[i].val.string_literals
          IN  \A k \in 1..Len(lits), col \in AllColumns(kb.schema_columns) :
                LET val == lits[k][2]
                IN  /\ calculate_similarity(Chars(val), Chars(col))
                         = calculate_similarity(Lower(Chars(val)), Lower(Chars(col)))
                    /\ Lower(Chars(val)) = Lower(Chars(col))
                         => TypoReports(files[i].key, lits[k][1], val) = 0

-----------------------------------------------------------------------------
(* Properties of the order of the passes (SpecOrder)                        *)

\* the two lists hold the same issues, each as often in one as in the other
SameBag(s, t) ==
    \A x \in {s[k] : k \in 1..Len(s)} \cup {t[k] : k \in 1..Len(t)} :
        CountOf(s, LAMBDA y : y = x) = CountOf(t, LAMBDA y : y = x)

\* a pass is running or about to run
InPass == pc \in {RunOrder[i] : i \in 1..Len(RunOrder)}

\* a step of a pass leaves the files, the function index and the knowledge base
PassStep == InPass => UNCHANGED <<files, functions, kb>>

\* C26: the validation passes commute: a run whose eight passes are called in
\* another order, after the same extraction and call-graph resolution, ends
\* with the same multiset of issues and the same severity and category counts
\* as the run before it, and no pass changes the files, the function index or
\* the knowledge base another pass reads.
C26_PassesCommute ==
    /\ []((pc = "done" /\ sameInput /\ runs >= 2)
          => /\ SameBag(issues, prevIssues)
             /\ \A x \in Severities :
                   stats.severity[x] = CountOf(prevIssues, LAMBDA y : y.severity = x)
             /\ \A x \in Categories :
                   stats.category[x] = CountOf(prevIssues, LAMBDA y : y.category = x))
    /\ [][PassStep]_vars

\* a second run in another order has ended with the issues of four categories
\* or more in another sequence than the first
C26_Witness ==
    /\ pc = "done" /\ sameInput /\ runs = 2
    /\ order # RunOrder
    /\ issues # prevIssues
    /\ Cardinality({issues[k].category : k \in 1..Len(issues)}) >= 4

-----------------------------------------------------------------------------
(* Properties of analyze_architecture (SpecAudit)                           *)

\* the Low file-level issues of the architecture pass for a file
BareReports(rel_path) ==
    CountOf(issues, LAMBDA x : /\ x.msg = "file lacks error handling"
                               /\ x.file = rel_path /\ x.line = 0
                               /\ x.severity = "LOW" /\ x.category = "Error Handling")

\* C27: the architecture pass emits one Low file-level issue (line 0) for every
\* code file that has at least one function and no function with an
\* error-handling construct, however many such files there are, and none for
\* a file without functions or with a function that has error handling.
C27_EveryBareFileReported ==
    pc = "done"
    => \A i \in 1..Len(files) :
          BareReports(files[i].key)
            = IF /\ IsCode(files[i].val.extension)
                 /\ Len(files[i].val.functions) > 0
                 /\ \A k \in 1..Len(files[i].val.functions) :
                       ~files[i].val.functions[k].has_error_handling
              THEN 1 ELSE 0

-----------------------------------------------------------------------------
(* Properties of the counts of _add_issue (SpecOrder)                       *)

RECURSIVE SumOver(_, _)
\* the sum of the counts of a Counter over the keys of a set
SumOver(counter, keys) ==
    IF keys = {} THEN 0
    ELSE LET k == CHOOSE x \in keys : TRUE
         IN  counter[k] + SumOver(counter, keys \ {k})

\* a step of one analyzer keeps the issues listed so far, as they are and in
\* their places
IssuesKept ==
    pc' # "config"
    => /\ Len(issues') >= Len(issues)
       /\ SubSeq(issues', 1, Len(issues)) = issues

\* C28: after any sequence of passes the counts agree with the issue list:
\* each per-severity and each per-category count is the number of listed
\* issues with that severity or category, the sum of the per-severity counts
\* and the sum of the per-category counts are both the length of the list, and
\* no issue is ever removed or edited.
C28_CountsAgree ==
    /\ [](/\ \A x \in Severities :
               stats.severity[x] = CountOf(issues, LAMBDA y : y.severity = x)
          /\ \A x \in Categories :
               stats.category[x] = CountOf(issues, LAMBDA y : y.category = x)
          /\ SumOver(stats.severity, Severities) = Len(issues)
          /\ SumOver(stats.category, Categories) = Len(issues))
    /\ [][IssuesKept]_vars

\* a run in another order than that of run_analysis has ended with issues of
\* three severities
C28_Witness ==
    /\ pc = "done"
    /\ order # RunOrder
    /\ Len(issues) >= 5
    /\ Cardinality({x \in Severities : stats.severity[x] > 0}) >= 3

-----------------------------------------------------------------------------
(* Properties of the function index and the cache (Spec)                    *)

\* the 'file::name' keys a fresh extraction of the files parsed so far
\* registers: _extract_function registers the functions of a code file
FreshKeys ==
    UNION {{<<files[i].key, Analysis(files[i].key, disk[files[i].key]).functions[k].name>> :
               k \in 1..Len(Analysis(files[i].key, disk[files[i].key]).functions)} :
           i \in {j \in 1..Len(files) : IsCode(Suffix(files[j].key))}}

\* C29: the function index of a run that loads records from the cache is the
\* index of a run that extracts the same contents fresh: the same set of
\* 'file::name' keys, for code files and for markup files alike.
C29_WarmIndexIsFresh ==
    Stage(pc) >= 3 => DictKeys(functions) = FreshKeys

-----------------------------------------------------------------------------
(* Properties of a completed run and its text report (SpecOrder)            *)

\* the issues of the given kind that _validate_fuzzy_matching_issues added
FuzzyReports(severity, msg) ==
    CountOf(issues, LAMBDA x : /\ x.msg = msg /\ x.severity = severity
                               /\ x.category = "Code Quality")

\* C30: every completed run leaves at least one issue in the list: the High
\* issue that FuzzyMatchingUtils.js was not found, or four Medium issues of
\* failing tests; so the health score of the text report is never 100 and its
\* status is never HEALTHY.
C30_NeverHealthy ==
    /\ pc \in {"done", "reported"}
       => /\ Len(issues) >= 1
          /\ \/ FuzzyReports("HIGH", "FuzzyMatchingUtils.js not found") = 1
             \/ FuzzyReports("MEDIUM", "test failing") = Len(TestFailures)
    /\ pc = "reported"
       => /\ scores[Len(scores)] < FullScore
          /\ health_status([issues |-> issues, stats |-> stats]) # "HEALTHY"

\* the report of a run whose only issues are the four failing tests
C30_Witness ==
    /\ pc = "reported"
    /\ Len(issues) = Len(TestFailures)
    /\ \A k \in 1..Len(issues) : issues[k].msg = "test failing"
    /\ scores[Len(scores)] = FullScore - Len(TestFailures)
    /\ health_status([issues |-> issues, stats |-> stats]) = "NEEDS ATTENTION"

=============================================================================
